---- MODULE Spec2Model ----
(***************************************************************************)
(* Model of the openapi-enforcer core: the validator-driven normalizer     *)
(* (definition-validator: childData, normalize, fn, runChildValidator,     *)
(* validateType) and the Schema enforcer (init, defineDataTypeFormat and   *)
(* the Schema validator descriptor).                                       *)
(*                                                                         *)
(* JavaScript values are records [t, v]: t is the definition type of the   *)
(* value, v its payload.  Raw objects and arrays live in a heap and are    *)
(* referred to by identity ([t |-> "ref", v |-> id]); objects built by the *)
(* walk live in the result store and are referred to by the position of    *)
(* the walk context that allocated them ([t |-> "res", v |-> path]).       *)
(***************************************************************************)
EXTENDS Integers, Sequences, FiniteSets, TLC

VARIABLES
    pc,         \* phase of the run
    input,      \* the arguments of the run: raw definition heap, root validator, faulty callbacks
    walk,       \* the state of the walk: contexts, results, map, messages, plugins, ...
    dataTypes,  \* statics: the data type registry  type -> format -> definition
    constructors, \* statics: the set of registered constructors
    warnings,   \* statics: the (type-format) keys already warned about
    thrown,     \* the error thrown by the last call of defineDataTypeFormat ("" if none)
    calls,      \* the number of calls of defineDataTypeFormat made so far
    last,       \* the last of them: its arguments and what the registry held before and after
    populated   \* what the last call of a populate injector has returned

vars == <<pc, input, walk, dataTypes, constructors, warnings, thrown, calls, last, populated>>

(***************************************************************************)
(* Bounds of the model.                                                    *)
(***************************************************************************)
MaxDepth == 12      \* nesting depth of normalize calls the call stack allows
RunLevels == 3      \* a walk takes at most 8^RunLevels steps
MaxKeys == 2        \* number of keys of a generated raw object
MaxDefines == 2     \* number of calls of defineDataTypeFormat in a run
MaxTemplate == 5    \* number of characters of a template given to an injector

(***************************************************************************)
(* JavaScript values.                                                      *)
(***************************************************************************)
Undefined == [t |-> "undefined", v |-> ""]
Null == [t |-> "null", v |-> ""]
Str(s) == [t |-> "string", v |-> s]
Num(s) == [t |-> "number", v |-> s]
Bool(b) == [t |-> "boolean", v |-> IF b THEN "true" ELSE "false"]
Ref(id) == [t |-> "ref", v |-> id]          \* a raw object or array, by identity
Res(path) == [t |-> "res", v |-> path]      \* an object or array built by the walk
List(seq) == [t |-> "list", v |-> seq]      \* an array literal of a descriptor
Copy(val) == [t |-> "copy", v |-> val.v]    \* util.copy of a raw object or array

\* JavaScript truthiness
Truthy(val) ==
    CASE val.t \in {"undefined", "null"} -> FALSE
      [] val.t = "boolean" -> val.v = "true"
      [] val.t = "string" -> val.v # ""
      [] val.t = "number" -> val.v # "0"
      [] OTHER -> TRUE

\* the key under which an array index is stored and reported
Idx(i) == <<"0", "1", "2", "3", "4", "5">>[i + 1]

(***************************************************************************)
(* Validator descriptors.  A descriptor field is absent, a literal or a    *)
(* callback (named by a tag); fn resolves it.  Descriptors are named, so   *)
(* that a descriptor can refer to itself.                                  *)
(***************************************************************************)
None == [k |-> "none", v |-> Undefined]
Lit(val) == [k |-> "lit", v |-> val]
Cb(tag) == [k |-> "cb", v |-> tag]
Prop(key, name) == [key |-> key, validator |-> name]

\* kind: "plain"  a capability set {type, properties, items, ...}
\*       "ref"    an EnforcerRef: value is the component name, config the inline descriptor
\*       "fn"     a function returning the descriptor named by target
\*       "true", "false", "str"   the literals true, false and a string used as a validator
\*       "undefined"              no validator
Plain ==
    [kind |-> "plain", weight |-> 0, type |-> None, enum |-> None, allowed |-> None,
     default |-> None, ignored |-> None, required |-> None, errors |-> None,
     deserialize |-> None, properties |-> <<>>, items |-> "", additionalProperties |-> "",
     value |-> "", config |-> "", target |-> ""]
EnforcerRef(value, config) == [Plain EXCEPT !.kind = "ref", !.value = value, !.config = config]
Function(target) == [Plain EXCEPT !.kind = "fn", !.target = target]

\* the Schema validator: properties of the descriptor returned by validator(data)
SchemaProperties ==
    << Prop("additionalProperties", "Schema.additionalProperties"),
       Prop("default", "Schema.default"),
       Prop("deprecated", "Schema.deprecated"),
       Prop("description", "Schema.description"),
       Prop("discriminator", "Schema.discriminator"),
       Prop("enum", "Schema.enum"),
       Prop("example", "Schema.example"),
       Prop("format", "Schema.format"),
       Prop("items", "Schema.items"),
       Prop("maximum", "Schema.maxOrMin"),
       Prop("minimum", "Schema.maxOrMin"),
       Prop("nullable", "Schema.nullable"),
       Prop("pattern", "Schema.pattern"),
       Prop("properties", "Schema.properties"),
       Prop("readOnly", "Schema.readOnly"),
       Prop("required", "Schema.required"),
       Prop("title", "'string'"),
       Prop("type", "Schema.type"),
       Prop("writeOnly", "Schema.writeOnly") >>

\* a second meta-schema, given to normalize by a caller: it uses every capability of a
\* descriptor (function validators, ignored, literal true and false validators, ...)
NodeProperties ==
    << Prop("child", "NodeFn"),
       Prop("flag", "Node.flag"),
       Prop("free", "true"),
       Prop("kind", "Node.kind"),
       Prop("bound", "Node.bound"),
       Prop("list", "Node.list"),
       Prop("note", "Node.note"),
       Prop("part", "Node.part"),
       Prop("raw", "false"),
       Prop("tags", "Node.tags") >>

Descriptor(name) ==
    CASE name = "Schema" ->
            [Plain EXCEPT !.type = Lit(Str("object")), !.properties = SchemaProperties,
                          !.errors = Cb("Schema.errors")]
      [] name = "SchemaFn" -> Function("Schema")
      [] name = "Schema.additionalProperties" -> EnforcerRef("Schema", "Schema.additionalProperties.config")
      [] name = "Schema.additionalProperties.config" ->
            [Plain EXCEPT !.allowed = Cb("parentTypeIsObject"),
                          !.type = Lit(List(<<"boolean", "object">>)),
                          !.default = Lit(Bool(TRUE))]
      [] name = "Schema.default" -> [Plain EXCEPT !.type = Cb("parentTypes")]
      [] name = "Schema.deprecated" ->
            [Plain EXCEPT !.allowed = Cb("majorIs3"), !.type = Lit(Str("boolean")),
                          !.default = Lit(Bool(FALSE))]
      [] name = "Schema.description" -> [Plain EXCEPT !.type = Lit(Str("string"))]
      [] name = "Schema.discriminator" ->
            [Plain EXCEPT !.allowed = Cb("discriminator.allowed"),
                          !.type = Cb("discriminator.type"),
                          !.properties = << Prop("propertyName", "Schema.discriminator.propertyName"),
                                            Prop("mapping", "Schema.discriminator.mapping") >>,
                          !.errors = Cb("discriminator.errors")]
      [] name = "Schema.discriminator.propertyName" ->
            [Plain EXCEPT !.type = Lit(Str("string")), !.required = Lit(Bool(TRUE)),
                          !.errors = Cb("propertyName.errors")]
      [] name = "Schema.discriminator.mapping" ->
            [Plain EXCEPT !.type = Lit(Str("object")),
                          !.additionalProperties = "Schema.discriminator.mapping.additionalProperties"]
      [] name = "Schema.discriminator.mapping.additionalProperties" ->
            [Plain EXCEPT !.type = Lit(Str("string")), !.errors = Cb("mapping.errors")]
      [] name = "Schema.enum" ->
            [Plain EXCEPT !.weight = -7, !.type = Lit(Str("array")), !.items = "Schema.enum.items"]
      [] name = "Schema.enum.items" ->
            [Plain EXCEPT !.allowed = Cb("hasGrandParent"), !.type = Cb("grandParentTypes")]
      [] name = "Schema.example" -> [Plain EXCEPT !.allowed = Lit(Bool(TRUE))]
      [] name = "Schema.format" ->
            [Plain EXCEPT !.weight = -9, !.allowed = Cb("format.allowed"),
                          !.type = Lit(Str("string")), !.errors = Cb("format.errors")]
      [] name = "Schema.items" ->  EnforcerRef("Schema", "Schema.items.config")
      [] name = "Schema.items.config" ->
            [Plain EXCEPT !.allowed = Cb("parentTypeIsArray"), !.required = Cb("parentTypeIsArray")]
      [] name = "Schema.maxOrMin" ->
            [Plain EXCEPT !.weight = -8, !.allowed = Cb("numericish"), !.type = Cb("numericType"),
                          !.deserialize = Cb("maxOrMin.deserialize"),
                          !.errors = Cb("maxOrMin.errors")]
      [] name = "Schema.nullable" ->
            [Plain EXCEPT !.allowed = Cb("majorIs3"), !.type = Lit(Str("boolean")),
                          !.default = Lit(Bool(FALSE))]
      [] name = "Schema.readOnly" ->
            [Plain EXCEPT !.allowed = Cb("isSchemaProperty"), !.type = Lit(Str("boolean")),
                          !.default = Lit(Bool(FALSE)), !.errors = Cb("readOnly.errors")]
      [] name = "Schema.writeOnly" ->
            [Plain EXCEPT !.allowed = Cb("writeOnly.allowed"), !.type = Lit(Str("boolean")),
                          !.default = Lit(Bool(FALSE))]
      [] name = "Schema.pattern" ->
            [Plain EXCEPT !.allowed = Cb("parentTypeIsString"), !.type = Lit(Str("string")),
                          !.deserialize = Cb("pattern.deserialize"),
                          !.errors = Cb("pattern.errors")]
      [] name = "Schema.properties" ->
            [Plain EXCEPT !.weight = -5, !.allowed = Cb("parentTypeIsObject"),
                          !.type = Lit(Str("object")), !.additionalProperties = "Schema.ref"]
      [] name = "Schema.ref" -> EnforcerRef("Schema", "")
      [] name = "Schema.required" ->
            [Plain EXCEPT !.weight = 1, !.allowed = Cb("parentTypeIsObject"),
                          !.type = Lit(Str("array")), !.items = "'string'",
                          !.errors = Cb("required.errors")]
      [] name = "Schema.type" ->
            [Plain EXCEPT !.weight = -10, !.type = Lit(Str("string")),
                          !.required = Cb("type.required"), !.enum = Cb("type.enum")]
      [] name = "'string'" -> [Plain EXCEPT !.kind = "str"]
      [] name = "true" -> [Plain EXCEPT !.kind = "true"]
      [] name = "false" -> [Plain EXCEPT !.kind = "false"]
      [] name = "Node" ->
            [Plain EXCEPT !.type = Lit(Str("object")), !.properties = NodeProperties,
                          !.errors = Cb("Node.errors")]
      [] name = "NodeFn" -> Function("Node")
      [] name = "Node.flag" ->
            [Plain EXCEPT !.type = Lit(Str("boolean")), !.default = Cb("Node.flag.default")]
      [] name = "Node.kind" ->
            [Plain EXCEPT !.weight = -10, !.type = Lit(Str("string")),
                          !.required = Cb("Node.kind.required"),
                          !.enum = Cb("Node.kind.enum")]
      [] name = "Node.bound" ->
            [Plain EXCEPT !.weight = -8, !.allowed = Cb("Node.bound.allowed"),
                          !.type = Cb("Node.bound.type"), !.required = Lit(Bool(TRUE)),
                          !.errors = Cb("Node.bound.errors")]
      [] name = "Node.list" -> [Plain EXCEPT !.type = Lit(Str("array")), !.items = "NodeFn"]
      [] name = "Node.note" -> [Plain EXCEPT !.ignored = Cb("Node.note.ignored")]
      [] name = "Node.part" -> EnforcerRef("Part", "Node.part.config")
      [] name = "Node.part.config" ->
            [Plain EXCEPT !.allowed = Cb("Node.part.allowed"),
                          !.type = Lit(List(<<"boolean", "object">>)),
                          !.default = Lit(Bool(TRUE))]
      [] name = "Node.tags" ->
            [Plain EXCEPT !.type = Lit(Str("object")), !.additionalProperties = "Node.tag"]
      [] name = "Node.tag" ->
            [Plain EXCEPT !.type = Lit(List(<<"string", "object">>)),
                          !.errors = Cb("Node.tag.errors")]
      [] name = "Part" ->
            [Plain EXCEPT !.type = Lit(Str("object")),
                          !.properties = << Prop("kind", "Node.kind"), Prop("next", "Part.next") >>]
      [] name = "PartFn" -> Function("Part")
      [] name = "Part.next" -> EnforcerRef("Part", "")
      [] OTHER -> [Plain EXCEPT !.kind = "undefined"]

\* the validator of a component: context[name] passes it to normalize
ComponentValidator(name) ==
    CASE name = "Schema" -> "SchemaFn"
      [] name = "Part" -> "PartFn"
      [] OTHER -> ""

(***************************************************************************)
(* The state of a walk.                                                    *)
(*   heap     raw objects and arrays: id -> [t, keys, val]                 *)
(*   ctx      the walk contexts (data) by position                         *)
(*   res      the objects and arrays built by the walk, by allocating      *)
(*            position: [t, val, inst, frozen]                             *)
(*   map      data.map: raw object id -> result registered for it          *)
(*   d2i      defToInstanceMap: raw object id -> component instance        *)
(*   msgs     the messages of the exception and warn trees, in order       *)
(*   log      the trace of the walk: visits, callback calls, assignments   *)
(*   returns  the returns of normalize, in order                           *)
(*   stack    the calls of normalize in progress                           *)
(*   plugins  the deferred callbacks                                       *)
(*   refs     what refParser.$refs.get resolves: reference -> raw object   *)
(***************************************************************************)
Parent(pos) == SubSeq(pos, 1, Len(pos) - 1)

NewWalk(in, registry) ==
    [heap |-> in.heap, faulty |-> in.faulty, major |-> in.major, refParser |-> in.refParser,
     refs |-> in.refs, dataTypes |-> registry,
     ctx |-> <<>>, res |-> <<>>, map |-> <<>>, d2i |-> <<>>,
     msgs |-> <<>>, log |-> <<>>, returns |-> <<>>, plugins |-> <<>>,
     stack |-> <<>>, overflow |-> FALSE, thrown |-> FALSE, ret |-> Undefined]

\* util.getDefinitionType
getDefinitionType(heap, val) ==
    CASE val.t = "ref" -> heap[val.v].t
      [] val.t \in {"res", "copy", "list"} -> "object"
      [] OTHER -> val.t

\* exception.message(text) / warn.message(text) on the collector at path `at`, by the rule
\* checked for the node at position `pos`
Message(st, chan, at, pos, text, arg) ==
    [st EXCEPT !.msgs = Append(@, [chan |-> chan, at |-> at, pos |-> pos, text |-> text, arg |-> arg])]

Log(st, ev, pos, key) == [st EXCEPT !.log = Append(@, [ev |-> ev, pos |-> pos, key |-> key])]

Throw(st) == [st EXCEPT !.thrown = TRUE, !.ret = Undefined]
Return(st, val) == [st EXCEPT !.ret = val]

\* definition[key] of a raw value
IdxOf(key) == CHOOSE i \in 0..5 : Idx(i) = key
Member(heap, definition, key) ==
    IF definition.t # "ref" THEN Undefined
    ELSE LET node == heap[definition.v]
         IN IF node.t = "array"
            THEN IF key \in {Idx(i) : i \in 0..(Len(node.val) - 1)}
                 THEN node.val[IdxOf(key) + 1] ELSE Undefined
            ELSE IF key \in DOMAIN node.val THEN node.val[key] ELSE Undefined

\* a fresh [] or {}
NewResult(type) == [t |-> type, keys |-> <<>>, val |-> <<>>, inst |-> "", frozen |-> FALSE]

\* exception.at(key), warn.at(key)
At(collector, key) == Append(collector, key)

\* a child that reports on the collector of its parent
ParentException(parent, key) == parent.exception

ChildException(parent, key) == At(parent.exception, key)

\* childData(parent, key, validator), lines 25-56: the data of the child.  Its result, when
\* an array or object, is the one allocated at the position of the child
childData(st, parentPos, key, validator) ==
    LET parent == st.ctx[parentPos]
        pos == Append(parentPos, key)
        definition == Member(st.heap, parent.definition, key)
        definitionType == getDefinitionType(st.heap, definition)
    IN [pos |-> pos, key |-> key,
        definition |-> definition,
        definitionType |-> definitionType,
        exception |-> ChildException(parent, key),
        warn |-> At(parent.warn, key),
        result |-> IF definitionType \in {"array", "object"} THEN Res(pos) ELSE definition,
        validator |-> validator,
        refParser |-> FALSE,
        staticData |-> FALSE]

\* the walk state with the data of the children of parentPos under `keys`, validated by
\* validatorOf[key], and with their results allocated
WithChildren(st, parentPos, keys, validatorOf) ==
    LET child == [k \in keys |-> childData(st, parentPos, k, validatorOf[k])]
    IN [st EXCEPT !.ctx = [q \in {Append(parentPos, k) : k \in keys} |-> child[q[Len(q)]]] @@ @,
                  !.res = [q \in {Append(parentPos, k) : k \in
                                    {k \in keys : child[k].definitionType \in {"array", "object"}}}
                             |-> NewResult(child[q[Len(q)]].definitionType)] @@ @]

(***************************************************************************)
(* What the callbacks of the descriptors read.                             *)
(***************************************************************************)
HasParent(d) == Len(d.pos) >= 1
HasGrandParent(d) == Len(d.pos) >= 2
ParentOf(st, d) == st.ctx[Parent(d.pos)]
GrandParentOf(st, d) == st.ctx[Parent(Parent(d.pos))]

\* object[key] of an object built by the walk
ResultMember(st, val, key) ==
    IF val.t = "res" /\ st.res[val.v].t = "object" /\ key \in DOMAIN st.res[val.v].val
    THEN st.res[val.v].val[key] ELSE Undefined
ResultHas(st, val, key) ==
    val.t = "res" /\ st.res[val.v].t = "object" /\ key \in DOMAIN st.res[val.v].val

\* array.includes(val) for a raw array
RawIncludes(heap, array, val) == \E i \in 1..Len(heap[array.v].val) : heap[array.v].val[i] = val
IsRawArray(heap, val) == val.t = "ref" /\ heap[val.v].t = "array"
IsRawObject(heap, val) == val.t = "ref" /\ heap[val.v].t = "object"
RawHas(heap, val, key) == IsRawObject(heap, val) /\ key \in DOMAIN heap[val.v].val

\* the name a value contributes to a list of type names
TypeName(val) == IF val.t = "string" THEN val.v ELSE "<not a string>"

\* [ def.type ] plus 'null' when def.nullable === true || def['x-nullable'] === true
\* (Schema.js lines 379-384 and 464-469)
TypesOf(heap, def) ==
    LET types == << TypeName(Member(heap, def, "type")) >>
    IN IF Member(heap, def, "nullable") = Bool(TRUE) \/ Member(heap, def, "x-nullable") = Bool(TRUE)
       THEN List(Append(types, "null")) ELSE List(types)

\* dataTypes[type] && dataTypes[type][format]
DataType(registry, type, format) ==
    IF type.t = "string" /\ type.v \in DOMAIN registry /\ format.t = "string"
       /\ format.v \in DOMAIN registry[type.v]
    THEN registry[type.v][format.v]
    ELSE [defined |-> FALSE]

IsNumericDataType(registry, type, format) ==
    LET dataType == DataType(registry, type, format)
    IN dataType.defined /\ dataType.isNumeric

\* numericish(schema), lines 697-702: ret TRUE/FALSE, or throws when the schema has no
\* enforcerData
numericish(st, schema) ==
    LET type == ResultMember(st, schema, "type")
    IN IF type \in {Str("number"), Str("integer")} THEN Return(st, Bool(TRUE))
       ELSE IF schema.t # "res" \/ st.res[schema.v].inst = "" THEN Throw(st)
       ELSE Return(st, Bool(IsNumericDataType(st.dataTypes, type, ResultMember(st, schema, "format"))))

\* numericType(schema), lines 704-721
numericType(st, schema) ==
    LET type == ResultMember(st, schema, "type")
    IN IF schema.t # "res" \/ st.res[schema.v].inst = "" THEN Throw(st)
       ELSE IF IsNumericDataType(st.dataTypes, type, ResultMember(st, schema, "format"))
            THEN Return(st, Str(IF type.v \in {"boolean", "string"} THEN type.v ELSE "number"))
            ELSE Return(st, Str("number"))

\* isSchemaProperty({ parent }), lines 685-688
isSchemaProperty(st, d) ==
    /\ Len(d.pos) >= 3
    /\ GrandParentOf(st, d).key = "properties"
    /\ st.ctx[Parent(Parent(Parent(d.pos)))].validator = "SchemaFn"

\* +value of a number
NumVal(val) ==
    CASE val.v = "0" -> 0 [] val.v = "1" -> 1 [] val.v = "5" -> 5 [] val.v = "9" -> 9 [] OTHER -> 2

\* minMaxValid(minimum, maximum), lines 690-695, without the exclusive flags
minMaxValid(minimum, maximum) ==
    \/ minimum = Undefined \/ maximum = Undefined
    \/ NumVal(minimum) <= NumVal(maximum)

\* required.includes(name) on a raw value: "yes", "no", or "throw" when the value has no
\* includes method
Includes(heap, required, name) ==
    CASE IsRawArray(heap, required) -> IF RawIncludes(heap, required, name) THEN "yes" ELSE "no"
      [] required.t = "string" -> "no"
      [] OTHER -> "throw"

Messages(st, seq) == [st EXCEPT !.msgs = @ \o seq]
Indexes(n) == [i \in 1..n |-> i]

(***************************************************************************)
(* The callbacks of the Schema validator (Schema.js lines 307-650).        *)
(***************************************************************************)
\* discriminator.allowed, lines 395-398
DiscriminatorAllowed(st, d) ==
    IF ~HasParent(d) THEN Return(st, Undefined)
    ELSE LET def == ParentOf(st, d).definition
         IN IF ParentOf(st, d).validator # "SchemaFn" THEN Return(st, Bool(FALSE))
            ELSE IF Member(st.heap, def, "type") = Str("object") THEN Return(st, Bool(TRUE))
            ELSE IF Truthy(Member(st.heap, def, "anyOf")) THEN Return(st, Member(st.heap, def, "anyOf"))
            ELSE Return(st, Member(st.heap, def, "oneOf"))

\* discriminator.propertyName.errors, lines 404-409
PropertyNameErrors(st, d) ==
    LET schema == GrandParentOf(st, d)
        def == schema.definition
        required == Member(st.heap, def, "required")
        found == IF Truthy(required) THEN Includes(st.heap, required, d.definition) ELSE "no"
    IN IF Member(st.heap, def, "type") # Str("object") THEN Return(st, Undefined)
       ELSE IF found = "throw" THEN Throw(st)
       ELSE IF found = "no"
            THEN Return(Message(st, "error", schema.exception, d.pos,
                                "must be required because it is used as the discriminator property",
                                <<d.definition.v>>), Undefined)
            ELSE Return(st, Undefined)

\* discriminator.errors, lines 440-457
DiscriminatorErrors(st, d) ==
    LET def == ParentOf(st, d).definition
        required == Member(st.heap, def, "required")
        properties == Member(st.heap, def, "properties")
        name == IF st.major = 2 THEN d.definition ELSE ResultMember(st, d.definition, "propertyName")
        found == IF Truthy(required) THEN Includes(st.heap, required, name) ELSE "no"
        s1 == IF found = "no"
              THEN Message(st, "error", d.exception, d.pos,
                           "must be found in the parent's required properties list", <<name.v>>)
              ELSE st
        s2 == IF ~Truthy(properties) \/ ~RawHas(st.heap, properties, name.v)
              THEN Message(s1, "error", d.exception, d.pos,
                           "must be found in the parent's properties definition", <<name.v>>)
              ELSE s1
    IN IF st.major = 2 \/ (st.major = 3 /\ ResultHas(st, d.definition, "propertyName")
                           /\ ResultMember(st, d.definition, "type") = Str("object"))
       THEN IF found = "throw" THEN Throw(st) ELSE Return(s2, Undefined)
       ELSE Return(st, Undefined)

\* rxHttp.test(value), line 30: ^https?://
rxHttp(value) == value \in {"http://x/Pet"}

\* value.indexOf('/') !== -1
HasSlash(value) ==
    value \in {"http://x/Pet", "#/defs/Cat", "#/components/schemas/Dog",
                "#/components/schemas/Cat", "#/components/schemas/Bird"}

\* '#/components/schemas/' + value
Prefixed(value) ==
    CASE value = "Dog" -> "#/components/schemas/Dog"
      [] value = "Cat" -> "#/components/schemas/Cat"
      [] value = "Bird" -> "#/components/schemas/Bird"
      [] OTHER -> "#/components/schemas/..."

\* the reference a mapping value stands for, lines 239-241 and 419-421
Reference(value) == IF rxHttp(value) \/ HasSlash(value) THEN value ELSE Prefixed(value)

\* discriminator.mapping.additionalProperties.errors, lines 415-436: refParser is read
\* from the context of the mapping entry
MappingErrors(st, d) ==
    LET result == d.result
        resolved == result.t = "string" /\ Reference(result.v) \in DOMAIN st.refs
        schema == Ref(st.refs[Reference(result.v)])
        def == st.ctx[Parent(Parent(Parent(d.pos)))].definition
        anyOf == Member(st.heap, def, "anyOf")
        oneOf == Member(st.heap, def, "oneOf")
    IN IF ~d.refParser THEN Return(st, Undefined)
       ELSE IF ~resolved
            THEN Return(Message(st, "error", d.exception, d.pos, "Reference cannot be resolved",
                                <<result.v>>), Undefined)
       ELSE IF Truthy(anyOf) /\ ~IsRawArray(st.heap, anyOf) THEN Throw(st)
       ELSE IF Truthy(anyOf) /\ ~RawIncludes(st.heap, anyOf, schema)
            THEN Return(Message(st, "error", d.exception, d.pos,
                                "Mapping reference must exist in anyOf", <<result.v>>), Undefined)
       ELSE IF Truthy(anyOf) THEN Return(st, Undefined)
       ELSE IF Truthy(oneOf) /\ ~IsRawArray(st.heap, oneOf) THEN Throw(st)
       ELSE IF Truthy(oneOf) /\ ~RawIncludes(st.heap, oneOf, schema)
            THEN Return(Message(st, "error", d.exception, d.pos,
                                "Mapping reference must exist in oneOf", <<result.v>>), Undefined)
       ELSE Return(st, Undefined)

\* format.allowed, line 482
FormatAllowed(st, d) ==
    Return(st, Bool(Member(st.heap, ParentOf(st, d).definition, "type")
                        \in {Str("boolean"), Str("integer"), Str("number"), Str("string")}))

\* format.errors, lines 484-493
FormatErrors(st, d) ==
    LET parent == ParentOf(st, d)
        format == Member(st.heap, parent.definition, "format")
        type == Member(st.heap, parent.definition, "type")
        enums == IF type.t = "string" /\ type.v \in DOMAIN st.dataTypes
                 THEN DOMAIN st.dataTypes[type.v] ELSE {}
    IN IF ~Truthy(format) THEN Return(st, Undefined)
       ELSE IF ~parent.staticData THEN Throw(st)
       ELSE IF ~(format.t = "string" /\ format.v \in enums)
            THEN Return(Message(st, "warn", d.warn, d.pos, "Non standard format", <<format.v>>),
                        Undefined)
            ELSE Return(st, Undefined)

\* pattern.errors, lines 535-537
PatternErrors(st, d) ==
    IF ~Truthy(d.result)
    THEN Return(Message(st, "error", d.exception, d.pos, "Value must be a non-empty string", <<>>),
                Undefined)
    ELSE Return(st, Undefined)

\* pattern.deserialize, lines 527-534: the compiled regular expression
PatternDeserialize(st, d) ==
    IF ~Truthy(d.result)
    THEN Return(Message(st, "error", d.exception, d.pos, "Value must be a non-empty string", <<>>),
                [t |-> "regexp", v |-> "."])
    ELSE Return(st, [t |-> "regexp", v |-> d.result.v])

\* readOnly.errors, lines 549-553
ReadOnlyErrors(st, d) ==
    LET required == IF Len(d.pos) >= 3
                    THEN Member(st.heap, st.ctx[Parent(Parent(Parent(d.pos)))].definition, "required")
                    ELSE Undefined
        found == IF Truthy(required)
                 THEN Includes(st.heap, required, Str(ParentOf(st, d).key)) ELSE "no"
    IN IF st.major = 2 /\ Truthy(d.definition) /\ Len(d.pos) >= 3 /\ Truthy(required)
       THEN IF found = "throw" THEN Throw(st)
            ELSE IF found = "yes"
                 THEN Return(Message(st, "warn", ParentOf(st, d).warn, d.pos,
                     "Property should not be marked as both read only and required", <<>>),
                     Undefined)
                 ELSE Return(st, Undefined)
       ELSE Return(st, Undefined)

\* required.errors, lines 560-568
RequiredErrors(st, d) ==
    LET parent == ParentOf(st, d)
        additionalProperties == Member(st.heap, parent.definition, "additionalProperties")
        parentProperties == Member(st.heap, parent.definition, "properties")
        items == IF d.definition.t = "res" THEN st.res[d.definition.v].val ELSE <<>>
        Undefined_(key) == (~Truthy(parentProperties)
                               \/ ~Truthy(Member(st.heap, parentProperties, key.v)))
                           /\ ~Truthy(additionalProperties)
        bad == SelectSeq(Indexes(Len(items)), LAMBDA i : Undefined_(items[i]))
    IN IF d.definition.t # "res" THEN Throw(st)
       ELSE Return(Messages(st, [j \in 1..Len(bad) |->
                [chan |-> "error", at |-> At(d.exception, items[bad[j]].v), pos |-> d.pos,
                 text |-> "Property is listed as required but is not defined",
                 arg |-> <<items[bad[j]].v>>]]), Undefined)

\* type.required, lines 574-578
TypeRequired(st, d) ==
    LET v == ParentOf(st, d).definition
    IN Return(st, Bool(~RawHas(st.heap, v, "allOf") /\ ~RawHas(st.heap, v, "anyOf")
                       /\ ~RawHas(st.heap, v, "not") /\ ~RawHas(st.heap, v, "oneOf")))

\* type.enum, lines 579-593
TypeEnum(st, d) ==
    LET above == Parent(Parent(d.pos))
        nested == Len(d.pos) >= 2
                  /\ \E n \in 0..Len(above) : st.ctx[SubSeq(above, 1, n)].validator = "SchemaFn"
        allowFile == st.major = 2 /\ ~nested
        s1 == IF d.definition = Str("file") /\ st.major = 2 /\ ~allowFile
              THEN Message(st, "error", d.exception, d.pos,
                           "Value can only be file for non-nested schemas", <<>>)
              ELSE st
    IN Return(s1, List(IF allowFile
                       THEN <<Str("array"), Str("boolean"), Str("file"), Str("integer"),
                              Str("number"), Str("object"), Str("string")>>
                       ELSE <<Str("array"), Str("boolean"), Str("integer"), Str("number"),
                              Str("object"), Str("string")>>))

\* the cross-field errors of a Schema, lines 607-648 (for the properties modelled)
SchemaErrors(st, d) ==
    LET result == d.result
        s1 == IF ~minMaxValid(ResultMember(st, result, "minimum"), ResultMember(st, result, "maximum"))
              THEN Message(st, "error", d.exception, d.pos,
                           "Property minimum must be less than or equal to maximum", <<>>)
              ELSE st
        properties == ResultMember(st, result, "properties")
        keys == IF properties.t = "res" THEN st.res[properties.v].keys ELSE <<>>
        Broken(key) == ResultMember(st, properties, key).t \in {"undefined", "null"}
        Both(key) == Truthy(ResultMember(st, ResultMember(st, properties, key), "readOnly"))
                     /\ Truthy(ResultMember(st, ResultMember(st, properties, key), "writeOnly"))
        bad == SelectSeq(Indexes(Len(keys)), LAMBDA i : Both(keys[i]))
    IN IF result.t # "res" THEN Throw(st)
       ELSE IF ~ResultHas(st, result, "properties") THEN Return(s1, Undefined)
       ELSE IF properties.t # "res" \/ \E i \in 1..Len(keys) : Broken(keys[i]) THEN Throw(s1)
       ELSE Return(Messages(s1, [j \in 1..Len(bad) |->
                [chan |-> "error", at |-> At(At(d.exception, "properties"), keys[bad[j]]),
                 pos |-> d.pos, text |-> "Cannot be marked as both readOnly and writeOnly",
                 arg |-> <<>>]]), Undefined)

(***************************************************************************)
(* The callbacks of the Node meta-schema.                                  *)
(***************************************************************************)
\* bound.allowed: ({ parent }) => parent.result.kind === 'leaf'
NodeBoundAllowed(st, d) ==
    Return(st, Bool(ResultMember(st, ParentOf(st, d).result, "kind") = Str("leaf")))

\* bound.errors: ({ exception, result }) => { if (!result) exception.message(...) }
NodeBoundErrors(st, d) ==
    IF ~Truthy(d.result)
    THEN Return(Message(st, "error", d.exception, d.pos, "Value must not be zero", <<>>), Undefined)
    ELSE Return(st, Undefined)

\* part.allowed: ({ parent }) => parent.definition.kind !== 'leaf'
NodePartAllowed(st, d) ==
    Return(st, Bool(Member(st.heap, ParentOf(st, d).definition, "kind") # Str("leaf")))

\* tag.errors: ({ warn, result }) => { if (!result) warn.message(...) }
NodeTagErrors(st, d) ==
    IF ~Truthy(d.result)
    THEN Return(Message(st, "warn", d.warn, d.pos, "Value should be a non-empty string", <<>>),
                Undefined)
    ELSE Return(st, Undefined)

\* errors: ({ exception, result }) =>
\*     { if (result.kind === 'tree' && !result.hasOwnProperty('child')) exception.message(...) }
NodeErrors(st, d) ==
    IF d.result.t # "res" THEN Throw(st)
    ELSE IF ResultMember(st, d.result, "kind") = Str("tree") /\ ~ResultHas(st, d.result, "child")
         THEN Return(Message(st, "error", d.exception, d.pos, "A tree must have a child", <<>>),
                     Undefined)
         ELSE Return(st, Undefined)

\* value(params) for the callback named tag
Call(tag, st, d) ==
    CASE tag = "parentTypeIsObject" ->
            Return(st, Bool(Member(st.heap, ParentOf(st, d).definition, "type") = Str("object")))
      [] tag = "parentTypeIsArray" ->
            Return(st, Bool(Member(st.heap, ParentOf(st, d).definition, "type") = Str("array")))
      [] tag = "parentTypeIsString" ->
            Return(st, Bool(Member(st.heap, ParentOf(st, d).definition, "type") = Str("string")))
      [] tag = "parentTypes" -> Return(st, TypesOf(st.heap, ParentOf(st, d).definition))
      [] tag = "grandParentTypes" -> Return(st, TypesOf(st.heap, GrandParentOf(st, d).definition))
      [] tag = "hasGrandParent" -> Return(st, Bool(HasGrandParent(d)))
      [] tag = "majorIs3" -> Return(st, Bool(st.major = 3))
      [] tag = "discriminator.allowed" -> DiscriminatorAllowed(st, d)
      [] tag = "discriminator.type" -> Return(st, Str(IF st.major = 2 THEN "string" ELSE "object"))
      [] tag = "discriminator.errors" -> DiscriminatorErrors(st, d)
      [] tag = "propertyName.errors" -> PropertyNameErrors(st, d)
      [] tag = "mapping.errors" -> MappingErrors(st, d)
      [] tag = "format.allowed" -> FormatAllowed(st, d)
      [] tag = "format.errors" -> FormatErrors(st, d)
      [] tag = "numericish" -> numericish(st, ParentOf(st, d).result)
      [] tag = "numericType" -> numericType(st, ParentOf(st, d).result)
      [] tag = "maxOrMin.errors" -> Return(st, Undefined)
      [] tag = "pattern.deserialize" -> PatternDeserialize(st, d)
      [] tag = "pattern.errors" -> PatternErrors(st, d)
      [] tag = "isSchemaProperty" -> Return(st, Bool(isSchemaProperty(st, d)))
      [] tag = "writeOnly.allowed" -> Return(st, Bool(st.major = 3 /\ isSchemaProperty(st, d)))
      [] tag = "readOnly.errors" -> ReadOnlyErrors(st, d)
      [] tag = "required.errors" -> RequiredErrors(st, d)
      [] tag = "type.required" -> TypeRequired(st, d)
      [] tag = "type.enum" -> TypeEnum(st, d)
      [] tag = "Schema.errors" -> SchemaErrors(st, d)
      [] tag = "Node.flag.default" -> Return(st, Bool(FALSE))
      [] tag = "Node.kind.required" -> Return(st, Bool(TRUE))
      [] tag = "Node.kind.enum" -> Return(st, List(<<Str("leaf"), Str("tree")>>))
      [] tag = "Node.bound.allowed" -> NodeBoundAllowed(st, d)
      [] tag = "Node.bound.type" -> Return(st, Str("number"))
      [] tag = "Node.bound.errors" -> NodeBoundErrors(st, d)
      [] tag = "Node.note.ignored" -> Return(st, Bool(TRUE))
      [] tag = "Node.part.allowed" -> NodePartAllowed(st, d)
      [] tag = "Node.tag.errors" -> NodeTagErrors(st, d)
      [] tag = "Node.errors" -> NodeErrors(st, d)
      [] OTHER -> Return(st, Undefined)

\* the message of a catch block: exception.message('Unexpected error encountered: ' + err.stack)
Unexpected(st, collector, pos, what) ==
    Message(st, "error", collector, pos, "Unexpected error encountered", <<what>>)

\* value(params), line 234, for the callback named tag
Invoke(st, tag, d) == IF tag \in st.faulty THEN Throw(st) ELSE Call(tag, st, d)

\* the catch of lines 235-237: what the callback has thrown is recorded on
\* params.exception, and undefined is returned
Recorded(s1, tag, d) ==
    IF s1.thrown
    THEN [Unexpected(s1, d.exception, d.pos, tag) EXCEPT !.thrown = FALSE, !.ret = Undefined]
    ELSE s1

\* a call of value(params) that lets what the callback throws through
Uncaught(st, value, d) ==
    IF value.k = "cb" THEN Invoke(Log(st, "call", d.pos, value.v), value.v, d)
    ELSE Return(st, value.v)

\* fn(value, params), lines 231-241: a callback is called, and what it throws is recorded
\* on params.exception; anything else is returned as it is
fn(st, value, d) ==
    IF value.k = "cb"
    THEN Recorded(Invoke(Log(st, "call", d.pos, value.v), value.v, d), value.v, d)
    ELSE Return(st, value.v)

\* fn(data.validator, data) for the validator `name`, whose descriptor is V: a validator
\* given as a function is called for its descriptor.  The descriptor is returned by name
\* ("" is undefined)
Resolved(st, name, V, d) ==
    IF V.kind # "fn" THEN Return(st, Str(name))
    ELSE IF name \in st.faulty
         THEN Return(Unexpected(Log(st, "call", d.pos, name), d.exception, d.pos, name), Str(""))
         ELSE Return(Log(st, "call", d.pos, name), Str(V.target))

ResolveValidator(st, name, d) == Resolved(st, name, Descriptor(name), d)

\* a validator used as a condition: undefined and false are falsy
TruthyValidator(name) == Descriptor(name).kind \notin {"undefined", "false"}

\* a descriptor field used as a condition (validator.type, validator.enum, ...)
TruthyField(field) == field.k = "cb" \/ (field.k = "lit" /\ Truthy(field.v))

\* Array.isArray(matches) ? matches : [ matches ]
ToArray(val) == IF val.t = "list" THEN val.v ELSE << TypeName(val) >>

\* check if types match, lines 267-283, once validator.type is resolved
Matches(s1, d) ==
    LET matches == ToArray(s1.ret)
    IN IF \E i \in 1..Len(matches) : matches[i] = d.definitionType
       THEN Return(s1, Bool(TRUE))
       ELSE Return(Message(s1, "error", d.exception, d.pos, "Value must be", matches),
                   Bool(FALSE))

\* lines 263-266 and 284-286, for the descriptor `validator` of data.validator
TypeChecked(st, d, validator) ==
    IF validator.kind = "undefined" THEN Throw(st)
    ELSE IF TruthyField(validator.type) /\ d.definition # Undefined
         THEN Matches(fn(st, validator.type, d), d)
         ELSE Return(st, Bool(TRUE))

\* validateType(definitionType, data), lines 262-287: ret is true or false; throws when
\* data.validator is undefined
validateType(st, d) == TypeChecked(st, d, Descriptor(d.validator))

\* a map that has forgotten every definition
Forgotten(map, definition) == Undefined

\* map.get(definition), line 71
Existing(map, definition) ==
    IF definition.v \in DOMAIN map THEN map[definition.v] ELSE Undefined

\* definition && typeof definition === 'object', line 70
IsObjectLike(definition) == definition.t = "ref"

\* result[key] = val; throws when result is not an object
AssignResult(st, result, key, val) ==
    IF result.t # "res" THEN Throw(st)
    ELSE LET s1 == Log(st, "assign", result.v, key)
         IN [s1 EXCEPT !.res[result.v].val = (key :> val) @@ @,
                       !.res[result.v].keys = IF key \in DOMAIN st.res[result.v].val
                                              THEN @ ELSE Append(@, key)]

\* result.push(val); throws when result is not an array
PushResult(st, result, val) ==
    IF result.t # "res" THEN Throw(st)
    ELSE [st EXCEPT !.res[result.v].val = Append(@, val)]

\* rxExtension.test(key), line 21: ^x-.+
rxExtension(key) == key \in {"x-e", "x-nullable", "x-variable"}

\* the keys of a raw object, as Object.keys lists them
ObjectKeys(heap, definition) == heap[definition.v].keys

\* the comparison of properties.sort, lines 149-153: TRUE when a sorts before b.
\* KeyOrder lists the keys of the descriptors as < orders them
KeyOrder ==
    << "additionalProperties", "bound", "child", "default", "deprecated", "description",
       "discriminator", "enum", "example", "flag", "format", "free", "items", "kind",
       "list", "mapping", "maximum", "minimum", "next", "note", "nullable", "part",
       "pattern", "properties", "propertyName", "raw", "readOnly", "required", "tags",
       "title", "type", "writeOnly" >>
KeyRank(key) == CHOOSE i \in 1..Len(KeyOrder) : KeyOrder[i] = key
\* a comparison that ignores the weights
ByKey(a, b) == KeyRank(a.key) < KeyRank(b.key)

Before(a, b) ==
    IF a.weight < b.weight THEN TRUE
    ELSE IF a.weight > b.weight THEN FALSE
    ELSE KeyRank(a.key) < KeyRank(b.key)

\* properties.sort(...): the properties in the order of Before, each at the place that the
\* number of properties before it gives
Rank(properties, j) ==
    Cardinality({k \in 1..Len(properties) : Before(properties[k], properties[j])})

Sort(properties) ==
    [i \in 1..Len(properties) |->
        properties[CHOOSE j \in 1..Len(properties) : Rank(properties, j) = i - 1]]

\* keyValidator of a property, lines 106-108 and 160-162: the inline config of an
\* EnforcerRef ({} when it has none), else the validator itself
Config(validator) ==
    IF validator.kind = "ref" THEN Descriptor(validator.config) ELSE validator

KeyValidator(name) == Config(Descriptor(name))

\* a dispatch that constructs nothing
NeverConstruct(definitionType) == "normalize"

\* when runChildValidator meets an EnforcerRef: "normalize" with the inline config,
\* "construct" a component, or "reject", lines 246-254
RefCase(definitionType) ==
    CASE definitionType = "boolean" -> "normalize"
      [] definitionType = "object" -> "construct"
      [] OTHER -> "reject"

(***************************************************************************)
(* Schema.init, lines 206-247.                                             *)
(***************************************************************************)
\* the positions of the results built at `at` and below it
Under(st, at) == {p \in DOMAIN st.res : Len(p) >= Len(at) /\ SubSeq(p, 1, Len(at)) = at}

\* the position below `to` that p has below `from`
Relocate(p, from, to) == to \o SubSeq(p, Len(from) + 1, Len(p))

\* a value of the copy: what it holds of the original is held as a copy too
Moved(st, val, from, to) ==
    IF val.t = "res" /\ val.v \in Under(st, from) THEN Res(Relocate(val.v, from, to)) ELSE val

\* deserializeAndValidate(schema, exception, value, options), lines 673-683, for a value
\* that needs no conversion: schema.deserialize (lines 45-49) returns a copy of the
\* value (util.copy), here allocated at `to`
deserializeAndValidate(st, value, to) ==
    IF value.t # "res" THEN Return(st, value)
    ELSE LET from == value.v
             copy == [q \in {Relocate(p, from, to) : p \in Under(st, from)} |->
                        LET p == from \o SubSeq(q, Len(to) + 1, Len(q))
                        IN [st.res[p] EXCEPT !.val = [k \in DOMAIN @ |-> Moved(st, @[k], from, to)],
                                             !.inst = "", !.frozen = FALSE]]
         IN Return([st EXCEPT !.res = copy @@ @], Res(to))

\* Object.freeze(value), line 215: the value itself, not what it holds
ObjectFreeze(st, value) ==
    IF value.t = "res" THEN [st EXCEPT !.res[value.v].frozen = TRUE] ELSE st

\* util.freeze(value), line 29: the value and everything it holds
freeze(st, value) ==
    IF value.t = "res"
    THEN [st EXCEPT !.res = [p \in DOMAIN @ |->
                                IF p \in Under(st, value.v) THEN [@[p] EXCEPT !.frozen = TRUE]
                                ELSE @[p]]]
    ELSE st

\* setProperty(object, property, value), lines 723-728: Object.defineProperty throws on
\* what is not an object and on a frozen one
setProperty(st, object, property, value) ==
    IF object.t # "res" THEN Throw(st)
    ELSE IF st.res[object.v].frozen THEN Throw(st)
    ELSE [st EXCEPT !.res[object.v].val = (property :> value) @@ @,
                    !.res[object.v].keys = IF property \in DOMAIN st.res[object.v].val
                                           THEN @ ELSE Append(@, property)]

\* lines 215-216: Object.freeze(value); setProperty(this, 'enum', value)
FrozenEnum(s1, this) == setProperty(ObjectFreeze(s1, s1.ret), this, "enum", s1.ret)

\* lines 220 and 224: setProperty(this, property, freeze(value))
FrozenValue(s1, this, property) == setProperty(freeze(s1, s1.ret), this, property, s1.ret)

\* lines 210-217: this.enum.map(...) builds a new array of the deserialized items
InitEnum(st, pos) ==
    LET this == st.ctx[pos].result
        enum == ResultMember(st, this, "enum")
    IN IF ~ResultHas(st, this, "enum") THEN st
       ELSE IF enum.t # "res" THEN Throw(st)
       ELSE IF st.res[enum.v].t # "array" THEN Throw(st)
       ELSE FrozenEnum(deserializeAndValidate(st, enum, Append(pos, "#enum")), this)

\* lines 218-221 and 222-225: default and example
InitValue(st, pos, property) ==
    LET this == st.ctx[pos].result
    IN IF st.thrown THEN st
       ELSE IF ~ResultHas(st, this, property) THEN st
       ELSE FrozenValue(deserializeAndValidate(st, ResultMember(st, this, property),
                                               Append(pos, IF property = "default"
                                                           THEN "#default" ELSE "#example")),
                        this, property)

\* lines 232-246: if there is a discriminator with mappings then the resolution of those
\* references is pushed on plugins
InitDiscriminator(st, pos) ==
    LET discriminator == ResultMember(st, st.ctx[pos].result, "discriminator")
    IN IF st.thrown THEN st
       ELSE IF /\ st.major = 3 /\ st.ctx[pos].refParser /\ Truthy(discriminator)
               /\ Truthy(ResultMember(st, discriminator, "mapping"))
            THEN [st EXCEPT !.plugins = Append(@, [pos |-> pos])]
            ELSE st

\* init(data), lines 206-247, called on the Schema built at pos.  No data type of the
\* model defines a validator (lines 228-230)
init(st, pos) ==
    InitDiscriminator(InitValue(InitValue(InitEnum(st, pos), pos, "default"), pos, "example"),
                      pos)

\* a map that answers with the definition itself
RawDefinition(d2i, definition) == definition

\* instanceMap.get(definition), line 243
instanceMapGet(d2i, definition) ==
    IF definition.v \in DOMAIN d2i THEN d2i[definition.v] ELSE Undefined

\* Object.keys(discriminator.mapping).forEach(key => ...), lines 237-244, from the i-th key
RECURSIVE ResolveMapping(_, _, _)
ResolveMapping(st, mapping, i) ==
    IF i > Len(st.res[mapping.v].keys) THEN st
    ELSE LET key == st.res[mapping.v].keys[i]
             value == st.res[mapping.v].val[key]
         IN \* value.indexOf is not a function
            IF value.t # "string" THEN Throw(st)
            \* refParser.$refs.get(ref) throws on a reference it cannot resolve
            ELSE IF Reference(value.v) \notin DOMAIN st.refs THEN Throw(st)
            ELSE LET definition == Ref(st.refs[Reference(value.v)])
                     s1 == setProperty(st, mapping, key, instanceMapGet(st.d2i, definition))
                 IN IF s1.thrown THEN s1 ELSE ResolveMapping(s1, mapping, i + 1)

\* the callback pushed on plugins by the init of the Schema at pos, lines 235-245
Plugin(st, pos) ==
    LET discriminator == ResultMember(st, st.ctx[pos].result, "discriminator")
        mapping == ResultMember(st, discriminator, "mapping")
    IN IF mapping.t # "res" THEN Throw(st) ELSE ResolveMapping(st, mapping, 1)

\* the plugins are run in order, once; a plugin that throws ends the run
RECURSIVE Drain(_, _)
Drain(st, i) ==
    IF i > Len(st.plugins) THEN [st EXCEPT !.plugins = <<>>]
    ELSE LET s1 == Plugin(st, st.plugins[i].pos)
         IN IF s1.thrown THEN s1 ELSE Drain(s1, i + 1)

(***************************************************************************)
(* The walk: normalize and runChildValidator.  The calls of normalize in   *)
(* progress are the frames of walk.stack; a frame keeps the locals of its  *)
(* call and the point `op` where the call continues:                       *)
(*   "enter"           line 59                                             *)
(*   "array"           the next turn of the loop of lines 87-90            *)
(*   "array.ret"       line 89, runChildValidator has returned             *)
(*   "additional"      the next turn of the loop of lines 104-126          *)
(*   "additional.ret"  line 116, runChildValidator has returned            *)
(*   "known"           the next turn of the loop of lines 156-180          *)
(*   "known.ret"       line 175, runChildValidator has returned            *)
(*   "messages"        line 183                                            *)
(*   "errors"          line 207                                            *)
(***************************************************************************)
Frame(pos, construct) ==
    [pos |-> pos, op |-> "enter", validator |-> "", V |-> Plain, i |-> 1, keys |-> <<>>,
     properties |-> <<>>, notAllowed |-> <<>>, unknownKeys |-> <<>>, missingRequired |-> <<>>,
     construct |-> construct, seen |-> FALSE]

Top(st) == st.stack[Len(st.stack)]
SetTop(st, frame) == [st EXCEPT !.stack[Len(st.stack)] = frame]
Goto(st, f, op) == SetTop(st, [f EXCEPT !.op = op])
Next_(f) == [f EXCEPT !.i = @ + 1]

\* a call of normalize(data) for the data at pos; construct names the component whose
\* constructor makes the call
Call_normalize(st, pos, construct) ==
    IF Len(st.stack) >= MaxDepth THEN [st EXCEPT !.overflow = TRUE, !.ret = Undefined]
    ELSE [st EXCEPT !.stack = Append(@, Frame(pos, construct))]

normalize(st, pos) == Call_normalize(st, pos, "")

\* what the constructor of a component does once normalize has returned
Constructed(st, pos, component) ==
    Return(IF component = "Schema" THEN init(st, pos) ELSE st, st.ctx[pos].result)

\* new data.context[validator.value](new ValidatorState(data)), line 251: the component
\* constructor keeps one instance per raw definition (defToInstanceMap), normalizes the
\* definition with the validator of the component and runs the init of the component
Construct(st, pos, component) ==
    LET data == st.ctx[pos]
    IN IF data.definition.v \in DOMAIN st.d2i
       THEN Return(Log(st, "construct", pos, component), st.d2i[data.definition.v])
       ELSE Call_normalize([Log(st, "construct", pos, component)
                               EXCEPT !.d2i = (data.definition.v :> data.result) @@ @,
                                      !.res[data.result.v].inst = component,
                                      !.ctx[pos].validator = ComponentValidator(component),
                                      !.ctx[pos].refParser = st.refParser,
                                      !.ctx[pos].staticData = TRUE],
                           pos, component)

\* data.validator = validator, line 245
ChildValidator(s1, pos) ==
    Log([s1 EXCEPT !.ctx[pos].validator = s1.ret.v], "child", pos, s1.ret.v)

\* lines 246-259: the value is returned, or normalize is called; V is the descriptor of
\* data.validator
Dispatch(st, pos, V) ==
    LET data == st.ctx[pos]
    IN IF V.kind = "ref"
       THEN CASE RefCase(data.definitionType) = "normalize" ->
                    normalize([st EXCEPT !.ctx[pos].validator = V.config], pos)
              [] RefCase(data.definitionType) = "construct" -> Construct(st, pos, V.value)
              [] OTHER ->
                    Return(Message(st, "error", data.exception, pos, "Value must be a plain object",
                                   <<>>), Undefined)
       ELSE IF V.kind \notin {"undefined", "false"} THEN normalize(st, pos)
       ELSE Return(st, data.result)

Validate(st, pos) == Dispatch(st, pos, Descriptor(st.ctx[pos].validator))

\* runChildValidator(data), lines 243-260
runChildValidator(st, pos) ==
    Validate(ChildValidator(ResolveValidator(st, st.ctx[pos].validator, st.ctx[pos]), pos), pos)

\* a return of normalize: the call ends and its caller continues with the value
Leave(st, line, val) ==
    LET f == Top(st)
        s1 == [st EXCEPT !.stack = SubSeq(@, 1, Len(@) - 1), !.ret = val,
                         !.returns = Append(@, [pos |-> f.pos, line |-> line, val |-> val,
                                                definition |-> st.ctx[f.pos].definition,
                                                seen |-> f.seen])]
    IN IF f.construct = "" THEN s1 ELSE Constructed(s1, f.pos, f.construct)

\* the catch block of normalize, lines 214-218, for the call whose frame is the top of
\* `stack`: what was thrown unwinds to it
Catch(st, stack) ==
    LET f == stack[Len(stack)]
    IN Leave([Unexpected(st, st.ctx[f.pos].exception, f.pos, "normalize")
                 EXCEPT !.thrown = FALSE, !.stack = stack],
             218, st.ctx[f.pos].result)

\* one turn of definition.forEach((def, i) => ...), lines 87-89, up to runChildValidator
ArrayItem(st, f) ==
    LET data == st.ctx[f.pos]
        key == Idx(f.i - 1)
    IN IF f.i > Len(st.heap[data.definition.v].val) THEN Goto(st, f, "errors")
       ELSE runChildValidator(
                WithChildren(Log(Goto(st, f, "array.ret"), "turn", f.pos, key), f.pos, {key},
                             [k \in {key} |-> f.V.items]),
                Append(f.pos, key))

\* result.push(...) of line 89
ArrayItemDone(st, f) ==
    PushResult(SetTop(st, [f EXCEPT !.op = "array", !.i = @ + 1]), st.ctx[f.pos].result, st.ret)

\* lines 112-119, once allowed and ignored are resolved: ret is what ignored has returned
AdditionalChild(s3, f, present, allowed) ==
    CASE present /\ ~allowed -> SetTop(s3, [Next_(f) EXCEPT !.notAllowed = Append(@, f.keys[f.i])])
      [] present /\ ~Truthy(s3.ret) ->
            runChildValidator(Goto(s3, f, "additional.ret"), Append(f.pos, f.keys[f.i]))
      [] OTHER -> SetTop(s3, Next_(f))

\* line 115: keyValidator.ignored; ret is what allowed has returned
AdditionalIgnored(s2, f, keyValidator) ==
    LET child == s2.ctx[Append(f.pos, f.keys[f.i])]
    IN AdditionalChild(IF /\ child.definition # Undefined /\ Truthy(s2.ret)
                          /\ TruthyField(keyValidator.ignored)
                       THEN fn(s2, keyValidator.ignored, child)
                       ELSE Return(s2, Bool(FALSE)),
                       f, child.definition # Undefined, Truthy(s2.ret))

\* line 110: keyValidator.allowed
AdditionalAllowed(s1, f, keyValidator) ==
    AdditionalIgnored(IF keyValidator.allowed.k # "none"
                      THEN fn(s1, keyValidator.allowed, s1.ctx[Append(f.pos, f.keys[f.i])])
                      ELSE Return(s1, Bool(TRUE)),
                      f, keyValidator)

\* one turn of Object.keys(definition).forEach(key => ...), lines 104-116, up to
\* runChildValidator
AdditionalProperty(st, f) ==
    IF f.i > Len(f.keys) THEN Goto(st, f, "messages")
    ELSE AdditionalAllowed(
             WithChildren(Log(st, "turn", f.pos, f.keys[f.i]), f.pos, {f.keys[f.i]},
                          [k \in {f.keys[f.i]} |-> f.V.additionalProperties]),
             f, KeyValidator(f.V.additionalProperties))

\* the errors of the property, lines 121-125
AdditionalErrors(s1, f, keyValidator) ==
    IF ~s1.thrown /\ TruthyField(keyValidator.errors)
    THEN fn(s1, keyValidator.errors,
            [s1.ctx[Append(f.pos, f.keys[f.i])]
                EXCEPT !.definition = ResultMember(s1, s1.ctx[f.pos].result, f.keys[f.i])])
    ELSE s1

\* result[key] = ... of line 116 and the errors of the property
AdditionalPropertyDone(st, f) ==
    AdditionalErrors(AssignResult(SetTop(st, [f EXCEPT !.op = "additional", !.i = @ + 1]),
                                  st.ctx[f.pos].result, f.keys[f.i], st.ret),
                     f, KeyValidator(f.V.additionalProperties))

\* lines 171-179, once allowed, ignored and required are resolved: ret is what ignored
\* (of a property that is defined) or required (of one that is not) has returned
KnownChild(s3, f, present, allowed) ==
    CASE present /\ ~allowed ->
            SetTop(s3, [Next_(f) EXCEPT !.notAllowed = Append(@, f.properties[f.i].key)])
      [] present /\ ~Truthy(s3.ret) ->
            runChildValidator(Goto(s3, f, "known.ret"), Append(f.pos, f.properties[f.i].key))
      [] present -> SetTop(s3, Next_(f))
      [] Truthy(s3.ret) ->
            SetTop(s3, [Next_(f) EXCEPT !.missingRequired = Append(@, f.properties[f.i].key)])
      [] OTHER -> SetTop(s3, Next_(f))

\* a loop that asks required of a property that is not allowed too
RequiredThoughRefused(s2, f, keyValidator, allowed) ==
    LET data == s2.ctx[Append(f.pos, f.properties[f.i].key)]
        present == data.definition # Undefined
    IN KnownChild(CASE present /\ allowed /\ TruthyField(keyValidator.ignored) ->
                            fn(s2, keyValidator.ignored, data)
                    [] ~present /\ TruthyField(keyValidator.required) ->
                            fn(s2, keyValidator.required, data)
                    [] OTHER -> Return(s2, Bool(FALSE)),
                  f, present, allowed)

\* lines 174 and 177: keyValidator.ignored and keyValidator.required
KnownIgnoredOrRequired(s2, f, keyValidator, allowed) ==
    LET data == s2.ctx[Append(f.pos, f.properties[f.i].key)]
        present == data.definition # Undefined
    IN KnownChild(CASE present /\ allowed /\ TruthyField(keyValidator.ignored) ->
                            fn(s2, keyValidator.ignored, data)
                    [] ~present /\ allowed /\ TruthyField(keyValidator.required) ->
                            fn(s2, keyValidator.required, data)
                    [] OTHER -> Return(s2, Bool(FALSE)),
                  f, present, allowed)

\* data.definition = ...; data.definitionType = ..., lines 167-168
Defaulted(s2, at) ==
    [s2 EXCEPT !.ctx[at].definition = s2.ret,
               !.ctx[at].definitionType = getDefinitionType(s2.heap, s2.ret)]

\* set default value, lines 166-169; ret is what allowed has returned
KnownDefault(s1, f, validator, keyValidator) ==
    LET at == Append(f.pos, f.properties[f.i].key)
    IN KnownIgnoredOrRequired(
           IF s1.ctx[at].definition = Undefined /\ Truthy(s1.ret) /\ validator.default.k # "none"
           THEN Defaulted(fn(s1, validator.default, s1.ctx[at]), at)
           ELSE s1,
           f, keyValidator, Truthy(s1.ret))

\* line 163: keyValidator.allowed
KnownAllowed(s0, f, validator, keyValidator) ==
    KnownDefault(IF keyValidator.allowed.k # "none"
                 THEN fn(s0, keyValidator.allowed, s0.ctx[Append(f.pos, f.properties[f.i].key)])
                 ELSE Return(s0, Bool(TRUE)),
                 f, validator, keyValidator)

\* one turn of properties.forEach(prop => ...), lines 156-180, up to runChildValidator
KnownProperty(st, f) ==
    IF f.i > Len(f.properties) THEN Goto(st, f, "messages")
    ELSE KnownAllowed(Log(st, "turn", f.pos, f.properties[f.i].key), f,
                      Descriptor(st.ctx[Append(f.pos, f.properties[f.i].key)].validator),
                      KeyValidator(st.ctx[Append(f.pos, f.properties[f.i].key)].validator))

\* result[key] = ... of line 175
KnownPropertyDone(st, f) ==
    AssignResult(SetTop(st, [f EXCEPT !.op = "known", !.i = @ + 1]),
                 st.ctx[f.pos].result, f.properties[f.i].key, st.ret)

\* the object branch of normalize before its loops, lines 93-153
Organize(st, f) ==
    LET data == st.ctx[f.pos]
        definition == data.definition
        result == data.result
        keys == ObjectKeys(st.heap, definition)
        V == f.V
        \* organize definition properties
        extensions == SelectSeq(keys, rxExtension)
        known == {V.properties[i].key : i \in 1..Len(V.properties)}
    IN CASE V.kind = "true" ->
                \* Object.assign(result, util.copy(definition))
                [Goto(st, f, "messages")
                    EXCEPT !.res[result.v].keys = keys,
                           !.res[result.v].val =
                               [k \in DOMAIN st.heap[definition.v].val |->
                                   IF st.heap[definition.v].val[k].t = "ref"
                                   THEN Copy(st.heap[definition.v].val[k])
                                   ELSE st.heap[definition.v].val[k]]]
         [] V.kind = "false" -> SetTop(st, [f EXCEPT !.op = "messages", !.notAllowed = keys])
         [] V.additionalProperties # "" ->
                SetTop(Log(st, "additional", f.pos, f.validator),
                       [f EXCEPT !.op = "additional", !.keys = keys])
         [] OTHER ->
                WithChildren(
                    [SetTop(Log(st, "known", f.pos, f.validator),
                            [f EXCEPT !.op = "known",
                                      !.unknownKeys =
                                          SelectSeq(keys, LAMBDA k : ~rxExtension(k) /\ k \notin known),
                                      \* get sorted array of all properties to use
                                      !.properties =
                                          Sort([i \in 1..Len(V.properties) |->
                                                  [key |-> V.properties[i].key,
                                                   weight |-> Descriptor(V.properties[i].validator).weight]])])
                        EXCEPT !.res[result.v].keys = extensions,
                               !.res[result.v].val =
                                   [k \in {extensions[i] : i \in 1..Len(extensions)} |->
                                       st.heap[definition.v].val[k]]],
                    f.pos, known,
                    [k \in known |->
                        V.properties[CHOOSE i \in 1..Len(V.properties) :
                                         V.properties[i].key = k].validator])

\* lines 79-83: the value is not one of the values of the enum
Included(s1, data) ==
    IF s1.ret.t # "list" THEN Throw(s1)
    ELSE IF \E i \in 1..Len(s1.ret.v) : s1.ret.v[i] = data.definition THEN s1
    ELSE Message(s1, "error", data.exception, data.pos, "Value must be one of",
                 [i \in 1..Len(s1.ret.v) |-> s1.ret.v[i].v])

\* if enum is invalid then exit, lines 76-84
Enum(st, f) ==
    IF f.V.kind = "undefined" THEN Throw(st)
    ELSE IF ~TruthyField(f.V.enum) THEN st
    ELSE Included(fn(st, f.V.enum, st.ctx[f.pos]), st.ctx[f.pos])

\* exception('Unknown data type provided'), line 203: the collector is called as a
\* function.  A collector is an object with the operations at, message and push; it is
\* not a function, and the call throws a TypeError
UnknownDataType(st, data) == Throw(st)

\* the branch on definitionType, lines 86-205
Branch(s1, f) ==
    LET pos == f.pos
        data == s1.ctx[pos]
    IN CASE s1.thrown -> s1
         \* an array or object that is not a raw one has no result to fill
         [] /\ data.definitionType \in {"array", "object"}
            /\ (data.definition.t # "ref" \/ data.result.t # "res") -> Throw(s1)
         [] data.definitionType = "array" -> Log(Goto(s1, f, "array"), "array", pos, f.validator)
         [] data.definitionType = "object" -> Organize(s1, f)
         [] data.definitionType \in {"boolean", "number", "string"} ->
                [Goto(s1, f, "errors") EXCEPT !.ctx[pos].result = data.definition]
         [] OTHER -> UnknownDataType(s1, data)

\* normalize from the enum check to the branch on definitionType, lines 76-205
Body(st, f) == Branch(Enum(st, f), f)

\* map.set(definition, result), line 73
Registered(st, data) ==
    IF IsObjectLike(data.definition)
    THEN [st EXCEPT !.map = (data.definition.v :> data.result) @@ @]
    ELSE st

\* lines 67-74, once the type is checked: ret is what validateType has returned
Guard(s2, f) ==
    LET data == s2.ctx[f.pos]
        existing == IF IsObjectLike(data.definition)
                    THEN Existing(s2.map, data.definition) ELSE Undefined
    IN CASE s2.thrown -> s2
         \* if type is invalid then exit
         [] ~Truthy(s2.ret) -> Leave(s2, 67, Undefined)
         \* if the value has already been processed then return the known value
         [] Truthy(existing) -> Leave(s2, 72, existing)
         [] OTHER -> Body(Registered(s2, data), f)

\* line 64 has generated the plain validator object (ret): the frame keeps it
Entered(s1, f) ==
    LET data == s1.ctx[f.pos]
        entered == [f EXCEPT !.validator = s1.ret.v,
                             !.V = Descriptor(s1.ret.v),
                             !.seen = IsObjectLike(data.definition)
                                      /\ data.definition.v \in DOMAIN s1.map]
    IN Guard(SetTop(validateType(s1, data), entered), entered)

\* normalize up to the cycle guard, lines 59-74
Enter(st, f) ==
    Entered(ResolveValidator(Log(st, "normalize", f.pos, st.ctx[f.pos].validator),
                             st.ctx[f.pos].validator, st.ctx[f.pos]),
            f)

\* a report that forgets the unknown keys
ReportKnown(st, f) ==
    IF f.notAllowed # <<>>
    THEN Message(st, "error", st.ctx[f.pos].exception, f.pos, "Property not allowed", f.notAllowed)
    ELSE st

\* report any keys that are not allowed and missing required properties, lines 183-192
Report(st, f) ==
    LET data == st.ctx[f.pos]
        notAllowed == f.notAllowed \o f.unknownKeys
        s1 == IF notAllowed # <<>>
              THEN Message(st, "error", data.exception, f.pos, "Property not allowed", notAllowed)
              ELSE st
    IN IF f.missingRequired # <<>>
       THEN Message(s1, "error", data.exception, f.pos, "Missing required property",
                    f.missingRequired)
       ELSE s1

\* return data.result, line 218
Returned(s1, f) == IF s1.thrown THEN s1 ELSE Leave(s1, 218, s1.ctx[f.pos].result)

\* run custom error validation check, lines 207-212
Errors(st, f) ==
    Returned(IF TruthyField(f.V.errors)
             THEN fn(st, f.V.errors, [st.ctx[f.pos] EXCEPT !.definition = st.ctx[f.pos].result])
             ELSE st,
             f)

\* what is thrown in a turn of the call on top of `stack` is caught by the try of the
\* innermost call of normalize in progress, lines 214-216; what a constructor throws after
\* its call of normalize has returned is thrown by runChildValidator in its caller
Unwind(stack, s1) ==
    CASE ~s1.thrown -> s1
      [] Len(s1.stack) >= Len(stack) -> Catch(s1, stack)
      [] s1.stack = <<>> -> s1
      [] OTHER -> Catch(s1, s1.stack)

\* the call of normalize of frame f continues from f.op
Turn(st, f) ==
    CASE f.op = "enter" -> Enter(st, f)
      [] f.op = "array" -> ArrayItem(st, f)
      [] f.op = "array.ret" -> ArrayItemDone(st, f)
      [] f.op = "additional" -> AdditionalProperty(st, f)
      [] f.op = "additional.ret" -> AdditionalPropertyDone(st, f)
      [] f.op = "known" -> KnownProperty(st, f)
      [] f.op = "known.ret" -> KnownPropertyDone(st, f)
      [] OTHER -> Errors(IF f.op = "messages" THEN Report(st, f) ELSE st, f)

\* the call of normalize on top of the stack runs to its next call or to its return
Step(st) == IF st.stack = <<>> THEN st ELSE Unwind(st.stack, Turn(st, Top(st)))

\* the walk runs until its first call of normalize has returned: at most 8^level steps
RECURSIVE Run(_, _), Repeat(_, _, _)
Repeat(st, level, n) ==
    IF n = 0 \/ st.stack = <<>> THEN st ELSE Repeat(Run(st, level - 1), level, n - 1)

Run(st, level) == IF level = 0 THEN Step(st) ELSE Repeat(st, level, 8)

(***************************************************************************)
(* The inputs of a run.                                                    *)
(***************************************************************************)
Object(pairs) ==
    [t |-> "object", keys |-> [i \in 1..Len(pairs) |-> pairs[i][1]],
     val |-> [k \in {pairs[i][1] : i \in 1..Len(pairs)} |->
                 pairs[CHOOSE i \in 1..Len(pairs) : pairs[i][1] = k][2]]]
Array(items) == [t |-> "array", keys |-> <<>>, val |-> items]

\* the key-value pairs a generated Node definition is made of
NodePool ==
    { <<"kind", Str("leaf")>>, <<"kind", Str("tree")>>, <<"kind", Str("bad")>>,
      <<"bound", Num("5")>>, <<"bound", Num("0")>>,
      <<"child", Ref("n1")>>, <<"child", Ref("n2")>>,
      <<"list", Ref("a1")>>, <<"list", Ref("n2")>>,
      <<"tags", Ref("t1")>>, <<"tags", Ref("n2")>>,
      <<"part", Bool(TRUE)>>, <<"part", Ref("n2")>>, <<"part", Num("5")>>,
      <<"raw", Ref("t1")>>, <<"raw", Ref("a1")>>, <<"free", Null>>,
      <<"x-e", Ref("n2")>> }

\* the pairs of a definition walked with a callback that throws
FaultyPool ==
    { <<"kind", Str("tree")>>, <<"bound", Num("5")>>, <<"child", Ref("n2")>>,
      <<"list", Ref("a1")>>, <<"tags", Ref("t1")>>, <<"part", Ref("n2")>> }

\* the sequences of at most n pairs with distinct keys: the keys of an object, in every order
Pairs(pool, n) ==
    { seq \in UNION {[1..m -> pool] : m \in 0..n} :
        \A i, j \in 1..Len(seq) : i # j => seq[i][1] # seq[j][1] }

\* the second object of the heap
SecondNodes ==
    { << <<"kind", Str("leaf")>>, <<"note", Str("s")>>, <<"free", Ref("t1")>>,
         <<"raw", Str("s")>>, <<"flag", Bool(TRUE)>>, <<"bound", Num("0")>> >>,
      << <<"kind", Str("tree")>>, <<"child", Ref("n1")>> >>,
      << <<"child", Ref("n2")>>, <<"bound", Num("0")>>, <<"zz", Str("s")>> >> }

NodeHeap(first, second) ==
    [n1 |-> Object(first), n2 |-> Object(second),
     a1 |-> Array(<<Ref("n2"), Null, Str("s"), Ref("n1")>>),
     t1 |-> Object(<< <<"b", Str("x")>>, <<"a", Str("")>>, <<"c", Num("1")>> >>)]

\* the callbacks that a run may make throw
NodeCallbacks ==
    { "NodeFn", "Node.errors", "Node.flag.default", "Node.kind.enum", "Node.kind.required",
      "Node.bound.allowed", "Node.bound.errors", "Node.bound.type", "Node.note.ignored",
      "Node.part.allowed", "Node.tag.errors" }

NodeInput(first, second, faulty) ==
    [heap |-> NodeHeap(first, second), validator |-> "NodeFn", definition |-> Ref("n1"),
     faulty |-> faulty, major |-> 3, refParser |-> FALSE, refs |-> <<>>]

\* a definition of at most MaxKeys keys, walked with callbacks that return or with one
\* callback that throws
NodeInputs ==
    { NodeInput(first, second, {}) : first \in Pairs(NodePool, MaxKeys), second \in SecondNodes }
    \cup
    { NodeInput(in[1], in[2], {in[3]}) :
        in \in Pairs(FaultyPool, MaxKeys) \X SecondNodes \X NodeCallbacks }

\* the data a caller passes to normalize for the root of a definition
RootData(st, in) ==
    LET definitionType == getDefinitionType(in.heap, in.definition)
        s1 == IF definitionType \in {"array", "object"}
              THEN [st EXCEPT !.res = (<<>> :> NewResult(definitionType)) @@ @] ELSE st
    IN [s1 EXCEPT !.ctx = (<<>> :> [pos |-> <<>>, key |-> "",
                                    definition |-> in.definition,
                                    definitionType |-> definitionType,
                                    exception |-> <<>>, warn |-> <<>>,
                                    result |-> IF definitionType \in {"array", "object"}
                                               THEN Res(<<>>) ELSE in.definition,
                                    validator |-> in.validator,
                                    refParser |-> in.refParser,
                                    staticData |-> TRUE]) @@ @]

\* no call of defineDataTypeFormat yet
NoCall == [type |-> "", format |-> "", definition |-> "", before |-> "none", after |-> "none"]

StandardDataTypes ==
    [boolean |-> <<>>, integer |-> <<>>, number |-> <<>>, string |-> <<>>]

(***************************************************************************)
(* Spec: a caller normalizes a definition with the Node meta-schema.       *)
(***************************************************************************)
Init ==
    /\ pc = "ready"
    /\ input \in NodeInputs
    /\ walk = NewWalk(input, StandardDataTypes)
    /\ dataTypes = StandardDataTypes
    /\ constructors = {}
    /\ warnings = {}
    /\ thrown = ""
    /\ calls = 0
    /\ last = NoCall
    /\ populated = <<>>

\* normalize(data) on the root of the definition
Normalize ==
    /\ pc = "ready"
    /\ walk' = Run(normalize(RootData(walk, input), <<>>), RunLevels)
    /\ pc' = "done"
    /\ UNCHANGED <<input, dataTypes, constructors, warnings, thrown, calls, last, populated>>

Next == Normalize

Spec == Init /\ [][Next]_vars

(***************************************************************************)
(* The Schema definitions of a run.                                        *)
(***************************************************************************)
\* the schemas a generated Schema definition starts from
SchemaBases ==
    { << <<"type", Str("object")>>, <<"properties", Ref("p1")>>, <<"required", Ref("r1")>>,
         <<"discriminator", Ref("d1")>> >>,
      << <<"type", Str("object")>> >>,
      << <<"type", Str("string")>> >>,
      << >> }

\* the key-value pairs added to them
SchemaPool ==
    { <<"type", Str("number")>>,
      <<"discriminator", Ref("d1")>>, <<"discriminator", Str("kind")>>,
      <<"properties", Ref("p1")>>, <<"required", Ref("r1")>>,
      <<"enum", Ref("e1")>>, <<"enum", Ref("e2")>>, <<"default", Ref("o1")>>, <<"example", Ref("o1")>>,
      <<"pattern", Str("abc")>>, <<"pattern", Str("")>>,
      <<"format", Str("x")>>, <<"maximum", Num("5")>>,
      <<"additionalProperties", Bool(FALSE)>> }

\* the pairs added to the first schema when the mapping, the version and the resolver vary
MappingPool == { <<"enum", Ref("e1")>>, <<"minimum", Num("9")>> }

\* the mappings of the discriminator
Mappings ==
    { << <<"dog", Str("Dog")>>, <<"cat", Str("#/defs/Cat")>> >>,
      << <<"dog", Str("Dog")>>, <<"bird", Str("Bird")>> >>,
      << <<"cat", Str("Cat")>> >>,
      << <<"dog", Str("Dog")>>, <<"n", Num("5")>> >> }

\* base followed by the pairs of extras, when no key is given twice
Extended(base, extras) == base \o extras
Compatible(base, extras) ==
    \A i \in 1..Len(base), j \in 1..Len(extras) : base[i][1] # extras[j][1]

SchemaHeap(root, mapping) ==
    [s1 |-> Object(root),
     s2 |-> Object(<< <<"type", Str("string")>>, <<"readOnly", Bool(TRUE)>> >>),
     s3 |-> Object(<< <<"type", Str("object")>> >>),
     d1 |-> Object(<< <<"propertyName", Str("kind")>>, <<"mapping", Ref("m1")>> >>),
     m1 |-> Object(mapping),
     p1 |-> Object(<< <<"kind", Ref("s2")>>, <<"self", Ref("s1")>> >>),
     r1 |-> Array(<<Str("kind"), Str("gone")>>),
     e1 |-> Array(<<Ref("o1"), Str("a"), Ref("o2")>>),
     o1 |-> Object(<< <<"x", Num("1")>> >>),
     e2 |-> Array(<<Ref("o2")>>),
     o2 |-> Object(<< >>)]

\* what the resolver of the document resolves
SchemaRefs ==
    [r \in {"#/components/schemas/Dog", "#/defs/Cat", "#/components/schemas/Cat"} |->
        CASE r = "#/components/schemas/Dog" -> "s2"
          [] r = "#/defs/Cat" -> "s1"
          [] OTHER -> "s3"]

SchemaInput(root, mapping, major, refParser) ==
    [heap |-> SchemaHeap(root, mapping), validator |-> "Schema.ref", definition |-> Ref("s1"),
     faulty |-> {}, major |-> major, refParser |-> refParser, refs |-> SchemaRefs]

SchemaInputs ==
    { SchemaInput(Extended(in[1], in[2]), << <<"dog", Str("Dog")>>, <<"cat", Str("#/defs/Cat")>> >>,
                  3, TRUE) :
        in \in {x \in SchemaBases \X Pairs(SchemaPool, MaxKeys) : Compatible(x[1], x[2])} }
    \cup
    { SchemaInput(<< <<"type", Str("object")>>, <<"properties", Ref("p1")>>,
                     <<"required", Ref("r1")>>, <<"discriminator", Ref("d1")>> >> \o in[1],
                  in[2], in[3], in[4]) :
        in \in Pairs(MappingPool, MaxKeys) \X Mappings \X {2, 3} \X BOOLEAN }

(***************************************************************************)
(* SpecSchema: a Schema is built from a definition, the plugins are run,   *)
(* and a consumer then assigns to what enum, default and example hold.     *)
(***************************************************************************)
InitSchema ==
    /\ pc = "ready"
    /\ input \in SchemaInputs
    /\ walk = NewWalk(input, StandardDataTypes)
    /\ dataTypes = StandardDataTypes
    /\ constructors = {}
    /\ warnings = {}
    /\ thrown = ""
    /\ calls = 0
    /\ last = NoCall
    /\ populated = <<>>

\* new Schema(definition): the constructor of the component on the root of the definition,
\* with the data types defined so far
NewSchema ==
    /\ pc = "ready"
    /\ walk' = Run(Construct(RootData([walk EXCEPT !.dataTypes = dataTypes], input), <<>>,
                             "Schema"),
                   RunLevels)
    /\ pc' = IF walk'.thrown THEN "threw" ELSE "constructed"
    /\ UNCHANGED <<input, dataTypes, constructors, warnings, thrown, calls, last, populated>>

\* the plugins phase: the queue is drained once after the walk
RunPlugins ==
    /\ pc = "constructed"
    /\ walk' = Drain(walk, 1)
    /\ pc' = IF walk'.thrown THEN "failed" ELSE "drained"
    /\ UNCHANGED <<input, dataTypes, constructors, warnings, thrown, calls, last, populated>>

\* the objects and arrays that those at the positions ps hold, and so on
RECURSIVE Reachable(_, _)
Reachable(w, ps) ==
    IF \A p \in ps : \A k \in DOMAIN w.res[p].val :
            w.res[p].val[k].t = "res" => w.res[p].val[k].v \in ps
    THEN ps
    ELSE Reachable(w, ps \cup {q \in DOMAIN w.res :
                                  \E p \in ps : \E k \in DOMAIN w.res[p].val :
                                      w.res[p].val[k] = Res(q)})

\* the positions of what the enum, default and example of the Schemas hold: the values
\* and the objects and arrays nested in them
Protected(w) ==
    Reachable(w, {q \in DOMAIN w.res :
                    \E p \in DOMAIN w.res, property \in {"enum", "default", "example"} :
                        /\ w.res[p].inst = "Schema"
                        /\ ResultMember(w, Res(p), property) = Res(q)})

\* value.mutated = 'mutated' (value.push('mutated') on an array) by a consumer of the
\* schema: a frozen value is left as it is
Assign(w, p) ==
    IF w.res[p].frozen THEN w
    ELSE IF w.res[p].t = "array" THEN [w EXCEPT !.res[p].val = Append(@, Str("mutated"))]
    ELSE [w EXCEPT !.res[p].val = ("mutated" :> Str("mutated")) @@ @,
                   !.res[p].keys = Append(@, "mutated")]

Mutate ==
    /\ pc = "drained"
    /\ \E p \in Protected(walk) : walk' = Assign(walk, p)
    /\ pc' = "mutated"
    /\ UNCHANGED <<input, dataTypes, constructors, warnings, thrown, calls, last, populated>>

NextSchema == NewSchema \/ RunPlugins \/ Mutate

SpecSchema == InitSchema /\ [][NextSchema]_vars

(***************************************************************************)
(* SpecRegistry: data type formats are defined, then a Schema that uses a  *)
(* format is built.                                                        *)
(***************************************************************************)
\* the definitions a caller passes to defineDataTypeFormat: handlers says that deserialize,
\* serialize and validate are functions; constructors lists what the property of that name
\* holds ("" is a member that is not a function), when the definition has it; isNumeric is
\* the flag of that name
Definitions ==
    { [name |-> "A", isNumeric |-> FALSE, isNull |-> FALSE, handlers |-> TRUE,
       hasConstructors |-> TRUE,
       constructors |-> <<"DateA">>],
      [name |-> "B", isNumeric |-> TRUE, isNull |-> FALSE, handlers |-> TRUE,
       hasConstructors |-> FALSE,
       constructors |-> <<>>],
      [name |-> "null", isNumeric |-> FALSE, isNull |-> TRUE, handlers |-> FALSE,
       hasConstructors |-> FALSE,
       constructors |-> <<>>],
      [name |-> "incomplete", isNumeric |-> FALSE, isNull |-> FALSE, handlers |-> FALSE,
       hasConstructors |-> FALSE,
       constructors |-> <<>>],
      [name |-> "C", isNumeric |-> FALSE, isNull |-> FALSE, handlers |-> TRUE,
       hasConstructors |-> TRUE,
       constructors |-> <<"DateC", "">>] }

DefineTypes == {"string", "array"}
DefineFormats == {"x", "string", ""}

\* the constructors that definition.constructors.forEach has added when it ends or throws,
\* lines 278-281
Added(definition) ==
    {definition.constructors[i] : i \in {j \in 1..Len(definition.constructors) :
        \A k \in 1..j : definition.constructors[k] # ""}}

\* what defineDataTypeFormat(type, format, definition) throws with the registry `types`,
\* lines 266-279 ("" if nothing)
DefineError(types, type, format, definition) ==
    CASE type \notin DOMAIN types -> "Invalid type specified"
      [] format = "" -> "Invalid format specified"
      [] format \in DOMAIN types -> "Format is already defined"
      [] ~definition.isNull /\ ~definition.handlers -> "Invalid data type definition"
      [] /\ definition.hasConstructors
         /\ \E i \in 1..Len(definition.constructors) : definition.constructors[i] = "" ->
            "Invalid constructor specified"
      [] OTHER -> ""

\* Object.assign({}, definition, { type, format }), line 292
Stored(type, format, definition) ==
    [defined |-> TRUE, type |-> type, format |-> format, handlers |-> definition.handlers,
     isNumeric |-> definition.isNumeric,
     definition |-> IF definition.isNull THEN "" ELSE definition.name]

\* what the registry holds for (type, format): the name of the definition it was defined
\* with ("" is the null definition), or "none"
Held(types, type, format) ==
    IF type \in DOMAIN types /\ format \in DOMAIN types[type]
    THEN types[type][format].definition ELSE "none"

\* defineDataTypeFormat(type, format, definition), lines 264-293
DefineDataTypeFormat ==
    /\ pc = "ready"
    /\ calls < MaxDefines
    /\ calls' = calls + 1
    /\ \E type \in DefineTypes, format \in DefineFormats, definition \in Definitions :
        /\ thrown' = DefineError(dataTypes, type, format, definition)
        /\ constructors' =
               IF /\ thrown' \in {"", "Invalid constructor specified"}
                  /\ definition.hasConstructors
               THEN constructors \cup Added(definition) ELSE constructors
        /\ warnings' =
               IF thrown' = "" /\ ~definition.isNull /\ ~definition.hasConstructors
               THEN warnings \cup {<<type, format>>} ELSE warnings
        /\ dataTypes' =
               IF thrown' = ""
               THEN [dataTypes EXCEPT ![type] = (format :> Stored(type, format, definition)) @@ @]
               ELSE dataTypes
        /\ last' = [type |-> type, format |-> format, definition |-> definition.name,
                    before |-> Held(dataTypes, type, format),
                    after |-> Held(dataTypes', type, format)]
    /\ UNCHANGED <<pc, input, walk, populated>>

\* the schemas that use a format
FormatInputs ==
    { SchemaInput(<< <<"type", Str(type)>>, <<"format", Str(format)>> >>,
                  << <<"dog", Str("Dog")>> >>, 3, FALSE) :
        type \in {"string", "number"}, format \in {"x", "string"} }

InitRegistry ==
    /\ pc = "ready"
    /\ input \in FormatInputs
    /\ walk = NewWalk(input, StandardDataTypes)
    /\ dataTypes = StandardDataTypes
    /\ constructors = {}
    /\ warnings = {}
    /\ thrown = ""
    /\ calls = 0
    /\ last = NoCall
    /\ populated = <<>>

NextRegistry == DefineDataTypeFormat \/ NewSchema

SpecRegistry == InitRegistry /\ [][NextRegistry]_vars

(***************************************************************************)
(* SpecInject: a populate injector is applied to a template.  Strings are  *)
(* sequences of characters.                                                *)
(***************************************************************************)
\* [_$a-z] and [_$a-z0-9] under the flag i
NameStart(c) == c \in {"a", "A", "_", "$"}
NameChar(c) == NameStart(c) \/ c \in {"1", "0"}

\* the regular expressions of lines 32-34: what opens and what closes a reference
populateInjectors ==
    [colon |-> [open |-> <<":">>, close |-> <<>>],
     doubleHandlebar |-> [open |-> <<"{", "{">>, close |-> <<"}", "}">>],
     handlebar |-> [open |-> <<"{">>, close |-> <<"}">>]]

\* value has seq at index i
Starts(value, i, seq) ==
    i + Len(seq) - 1 <= Len(value) /\ SubSeq(value, i, i + Len(seq) - 1) = seq

\* [_$a-z0-9]* from index i: the index of the last character it takes (i - 1 when none)
RECURSIVE NameEnd(_, _)
NameEnd(value, i) ==
    IF i <= Len(value) /\ NameChar(value[i]) THEN NameEnd(value, i + 1) ELSE i - 1

\* the index of the last character of the match of rx that starts at index i of value
\* (0 when rx does not match there)
MatchEnd(rx, value, i) ==
    IF /\ Starts(value, i, rx.open)
       /\ i + Len(rx.open) <= Len(value)
       /\ NameStart(value[i + Len(rx.open)])
       /\ Starts(value, NameEnd(value, i + Len(rx.open) + 1) + 1, rx.close)
    THEN NameEnd(value, i + Len(rx.open) + 1) + Len(rx.close)
    ELSE 0

\* rx.exec(value) with rx.lastIndex before index `from`: match.index (0 when null)
exec(rx, value, from) ==
    IF \E i \in from..Len(value) : MatchEnd(rx, value, i) > 0
    THEN CHOOSE i \in from..Len(value) :
            /\ MatchEnd(rx, value, i) > 0
            /\ \A j \in from..(i - 1) : MatchEnd(rx, value, j) = 0
    ELSE 0

\* match[1] of the match at index
Property(rx, value, index) ==
    SubSeq(value, index + Len(rx.open), MatchEnd(rx, value, index) - Len(rx.close))

\* substitutions that are made for every reference, with an empty string for a property
\* that data does not define
Blanked(rx, value, data, index) ==
    IF Property(rx, value, index) \in DOMAIN data
    THEN data[Property(rx, value, index)] ELSE <<>>

\* data[property] !== undefined ? data[property] : match[0], line 666
Replacement(rx, value, data, index) ==
    IF Property(rx, value, index) \in DOMAIN data
    THEN data[Property(rx, value, index)]
    ELSE SubSeq(value, index, MatchEnd(rx, value, index))

\* the loop of lines 664-669 from the match at `index`, with offset and result
RECURSIVE Injected(_, _, _, _, _, _)
Injected(rx, value, data, index, offset, result) ==
    IF index = 0 THEN result \o SubSeq(value, offset, Len(value))
    ELSE Injected(rx, value, data, exec(rx, value, MatchEnd(rx, value, index) + 1),
                  MatchEnd(rx, value, index) + 1,
                  result \o SubSeq(value, offset, index - 1)
                         \o Replacement(rx, value, data, index))

\* the function that buildInjector(rxGenerator) returns, lines 659-670
buildInjector(rx, value, data) == Injected(rx, value, data, exec(rx, value, 1), 1, <<>>)

\* the characters of a template, and the templates
Characters == {":", "{", "}", "a", "1"}
Templates == UNION {[1..n -> Characters] : n \in 0..MaxTemplate}

\* the parameters: none, a parameter whose value holds references itself, short ones
Params ==
    { <<>>,
      (<<"a">> :> <<"{", "{", "a", "}", "}", ":", "a">>),
      (<<"a">> :> <<"1">>) @@ (<<"a", "1">> :> <<>>),
      (<<"a", "1">> :> <<":">>) }

InitInject ==
    /\ pc = "ready"
    /\ input \in [replacement : DOMAIN populateInjectors, value : Templates, data : Params]
    /\ walk = <<>>
    /\ dataTypes = StandardDataTypes
    /\ constructors = {}
    /\ warnings = {}
    /\ thrown = ""
    /\ calls = 0
    /\ last = NoCall
    /\ populated = <<>>

\* populateInjectors[replacement](value, data)
Inject ==
    /\ pc = "ready"
    /\ populated' = buildInjector(populateInjectors[input.replacement], input.value, input.data)
    /\ pc' = "injected"
    /\ UNCHANGED <<input, walk, dataTypes, constructors, warnings, thrown, calls, last>>

NextInject == Inject

SpecInject == InitInject /\ [][NextInject]_vars

(***************************************************************************)
(* Properties of the walk of Spec.                                         *)
(***************************************************************************)
\* the first call of normalize has returned, within the call stack
Terminated == walk.stack = <<>> /\ ~walk.overflow

\* the indexes of the events `ev` logged at pos
EventsAt(ev, pos) == {i \in DOMAIN walk.log : walk.log[i].ev = ev /\ walk.log[i].pos = pos}

\* the keys of the turns of the loop of the node at pos
TurnsAt(w, pos) ==
    LET turns == SelectSeq(w.log, LAMBDA e : e.ev = "turn" /\ e.pos = pos)
    IN [i \in 1..Len(turns) |-> turns[i].key]

SetOf(seq) == {seq[i] : i \in 1..Len(seq)}

\* C1 (as stated): normalize terminates on every raw definition, cyclic ones included, and
\* every later visit of an object already in the map returns the result registered for it.
C1_EveryLaterVisitReturnsRegistered ==
    pc = "done" =>
        /\ Terminated
        /\ \A i \in DOMAIN walk.returns :
              walk.returns[i].seen =>
                  walk.returns[i].val = walk.map[walk.returns[i].definition.v]

\* C1 (amended): normalize terminates on every raw definition, cyclic ones included; a later
\* visit of an object already in the map that passes the type check of line 67 returns at
\* line 72 the result registered for it, and the first visit registers its own result.
C1_LaterVisitPastTypeCheckReturnsRegistered ==
    pc = "done" =>
        /\ Terminated
        /\ \A i \in DOMAIN walk.returns :
              LET r == walk.returns[i]
              IN /\ (r.seen /\ r.line # 67) =>
                        (r.line = 72 /\ r.val = walk.map[r.definition.v])
                 /\ (~r.seen /\ IsObjectLike(r.definition) /\ r.line # 67) =>
                        walk.map[r.definition.v] = walk.ctx[r.pos].result

\* a cycle: the root is met again below itself, and its registered result is returned
C1_Witness ==
    /\ pc = "done"
    /\ \E i \in DOMAIN walk.returns :
          /\ walk.returns[i].seen /\ walk.returns[i].line = 72
          /\ walk.returns[i].definition = input.definition
          /\ Len(walk.returns[i].pos) >= 2
          /\ walk.returns[i].val = Res(<<>>)

\* C2: normalize never lets an exception through: when a descriptor callback throws at a
\* node, an 'Unexpected error encountered' message is attached at the path of that node,
\* and every turn of every loop entered is still made (siblings are still processed).
C2_ThrowsAreRecordedAndSiblingsProcessed ==
    pc = "done" =>
        /\ Terminated /\ ~walk.thrown
        /\ \A i \in DOMAIN walk.log :
              LET e == walk.log[i]
              IN /\ (e.ev = "call" /\ e.key \in walk.faulty) =>
                        \E j \in DOMAIN walk.msgs :
                            /\ walk.msgs[j].text = "Unexpected error encountered"
                            /\ walk.msgs[j].chan = "error"
                            /\ walk.msgs[j].at = e.pos
                            /\ walk.msgs[j].arg = <<e.key>>
                 /\ e.ev = "known" =>
                        SetOf(TurnsAt(walk, e.pos)) =
                            {Descriptor(e.key).properties[k].key :
                                k \in 1..Len(Descriptor(e.key).properties)}
                 /\ e.ev = "additional" =>
                        TurnsAt(walk, e.pos) = ObjectKeys(walk.heap, walk.ctx[e.pos].definition)
                 /\ e.ev = "array" =>
                        TurnsAt(walk, e.pos) =
                            [k \in 1..Len(walk.heap[walk.ctx[e.pos].definition.v].val) |-> Idx(k - 1)]

\* a callback has thrown below the root and a later sibling has had its turn
C2_Witness ==
    /\ pc = "done"
    /\ \E i, j \in DOMAIN walk.log :
          /\ i < j
          /\ walk.log[i].ev = "call" /\ walk.log[i].key \in walk.faulty
          /\ walk.log[i].pos # <<>>
          /\ walk.log[j].ev = "turn" /\ walk.log[j].pos = Parent(walk.log[i].pos)

\* the weight of the property `key` of the descriptor `validator`
WeightOf(validator, key) ==
    LET properties == Descriptor(validator).properties
    IN Descriptor(properties[CHOOSE i \in 1..Len(properties) : properties[i].key = key].validator).weight

\* ascending by weight, then ascending by key
InOrder(validator, a, b) ==
    \/ WeightOf(validator, a) < WeightOf(validator, b)
    \/ WeightOf(validator, a) = WeightOf(validator, b) /\ KeyRank(a) < KeyRank(b)

\* the keys of the Node definitions, ascending
NodeKeys == <<"bound", "child", "kind", "list", "part", "tags", "x-e">>

\* the input with the keys of its root in ascending order
Ascending(in) ==
    [in EXCEPT !.heap.n1.keys = SelectSeq(NodeKeys, LAMBDA k : k \in SetOf(in.heap.n1.keys))]

\* what a walk has built and in what order
Outcome(w) ==
    [result |-> [p \in DOMAIN w.res |-> w.res[p].val],
     order |-> SelectSeq(w.log, LAMBDA e : e.ev \in {"turn", "call", "assign", "child"})]

\* C3: the properties of validator.properties are processed ascending by weight and then by
\* key, each result is assigned into the result of the parent before a later property has
\* its turn, and the order and the result are those of the walk of the same definition with
\* its keys in another (ascending) order.
C3_OrderByWeightThenKey ==
    pc = "done" =>
        /\ \A i \in DOMAIN walk.log :
              walk.log[i].ev = "known" =>
                  LET turns == TurnsAt(walk, walk.log[i].pos)
                  IN \A a, b \in 1..Len(turns) :
                        a < b => InOrder(walk.log[i].key, turns[a], turns[b])
        /\ \A i, j \in DOMAIN walk.log :
              (/\ walk.log[i].ev = "assign" /\ walk.log[j].ev = "turn"
               /\ walk.log[i].pos = walk.log[j].pos
               /\ \E k \in EventsAt("known", walk.log[i].pos) :
                     InOrder(walk.log[k].key, walk.log[i].key, walk.log[j].key))
              => i < j
        /\ Outcome(walk) =
              Outcome(Run(normalize(RootData(NewWalk(Ascending(input), dataTypes), Ascending(input)),
                                    <<>>), RunLevels))

\* bound (weight -8) comes before kind (weight -10) in the definition, and is still allowed
\* by the kind deposited before it
C3_Witness ==
    /\ pc = "done"
    /\ input.heap.n1.keys = <<"bound", "kind">>
    /\ input.heap.n1.val["kind"] = Str("leaf")
    /\ "bound" \in DOMAIN walk.res[<<>>].val
    /\ walk.res[<<>>].val["bound"] = input.heap.n1.val["bound"]

\* C4: runChildValidator constructs a component only for an EnforcerRef with an object
\* child; an EnforcerRef with a boolean child is normalized with the inline config of the
\* ref and nothing is constructed; an EnforcerRef with any other child gets 'Value must be a
\* plain object', nothing is constructed and undefined is returned.
C4_ConstructOnlyForObjectUnderEnforcerRef ==
    pc = "done" =>
        \A i \in DOMAIN walk.log :
            LET e == walk.log[i]
                type == walk.ctx[e.pos].definitionType
                isRef == Descriptor(e.key).kind = "ref"
                parent == walk.ctx[Parent(e.pos)].result
            IN /\ e.ev = "construct" =>
                    /\ type = "object"
                    /\ \E j \in EventsAt("child", e.pos) :
                          j < i /\ Descriptor(walk.log[j].key).kind = "ref"
                                /\ Descriptor(walk.log[j].key).value = e.key
               /\ (e.ev = "child" /\ isRef /\ type = "object") => EventsAt("construct", e.pos) # {}
               /\ (e.ev = "child" /\ isRef /\ type = "boolean") =>
                    /\ EventsAt("construct", e.pos) = {}
                    /\ \E j \in EventsAt("normalize", e.pos) :
                          walk.log[j].key = Descriptor(e.key).config
               /\ (e.ev = "child" /\ isRef /\ type \notin {"boolean", "object"}) =>
                    /\ EventsAt("construct", e.pos) = {}
                    /\ EventsAt("normalize", e.pos) = {}
                    /\ \E j \in DOMAIN walk.msgs :
                          /\ walk.msgs[j].text = "Value must be a plain object"
                          /\ walk.msgs[j].at = e.pos
                    /\ ResultHas(walk, parent, walk.ctx[e.pos].key) =>
                          ResultMember(walk, parent, walk.ctx[e.pos].key) = Undefined
               /\ (e.ev = "child" /\ ~isRef) => EventsAt("construct", e.pos) = {}

\* a component has been constructed for an object under an EnforcerRef
C4_Witness ==
    /\ pc = "done"
    /\ \E i \in DOMAIN walk.log :
          /\ walk.log[i].ev = "construct" /\ walk.log[i].key = "Part"
          /\ walk.res[walk.log[i].pos].inst = "Part"

(***************************************************************************)
(* Properties of the Schemas of SpecSchema.                                *)
(***************************************************************************)
\* the positions of the Schema instances the walk has built
Schemas(w) == {p \in DOMAIN w.res : w.res[p].inst = "Schema"}

\* this.discriminator.mapping of the Schema at p, and the mapping of its raw definition
MappingAt(w, p) == ResultMember(w, ResultMember(w, Res(p), "discriminator"), "mapping")
RawMappingAt(w, p) ==
    Member(w.heap, Member(w.heap, w.ctx[p].definition, "discriminator"), "mapping")

\* the Schemas of a version 3 document with a resolver and a discriminator mapping
Discriminated(w) ==
    {p \in Schemas(w) : w.major = 3 /\ w.refParser /\ MappingAt(w, p).t = "res"}

NormalizerTexts ==
    { "Value must be", "Value must be one of", "Property not allowed",
      "Missing required property", "Value must be a plain object",
      "Unexpected error encountered" }

Mutated(value) ==
    IF value.t = "array" THEN \E i \in 1..Len(value.val) : value.val[i] = Str("mutated")
    ELSE "mutated" \in DOMAIN value.val

\* C9: after init the enum, default and example of a Schema are deep-frozen: no later
\* operation changes the value or an object or array nested in it
C9_EnumDefaultExampleDeepFrozen ==
    \A p \in Protected(walk) : ~Mutated(walk.res[p])

\* C10: after normalization, the pattern of a Schema of type string is a compiled regular
\* expression: built from the string when it is non-empty; when it is empty, the universal
\* matcher, with the error 'Value must be a non-empty string' at /pattern
C10_PatternIsCompiled ==
    pc \in {"constructed", "drained", "mutated"} =>
        \A p \in Schemas(walk) :
            LET raw == Member(walk.heap, walk.ctx[p].definition, "pattern")
                pattern == ResultMember(walk, Res(p), "pattern")
            IN Member(walk.heap, walk.ctx[p].definition, "type") = Str("string")
               /\ raw.t = "string"
               => /\ pattern.t = "regexp"
                  /\ raw.v # "" => pattern.v = raw.v
                  /\ raw.v = "" =>
                        /\ pattern.v = "."
                        /\ \E i \in DOMAIN walk.msgs :
                              /\ walk.msgs[i].text = "Value must be a non-empty string"
                              /\ walk.msgs[i].at = Append(p, "pattern")

(***************************************************************************)
(* Properties of the registry of SpecRegistry.                             *)
(***************************************************************************)
\* C7: a call of defineDataTypeFormat for a (type, format) that has been defined throws,
\* and leaves what the registry holds for the pair as it was
C7_DuplicateDefineThrows ==
    calls > 0 /\ last.before \notin {"none", ""} =>
        thrown # "" /\ last.after = last.before

\* the last call has defined (type, format) with null
Deregistered(type, format) ==
    /\ calls > 0
    /\ thrown = ""
    /\ last.definition = "null"
    /\ last.type = type /\ last.format = format

\* C8: defineDataTypeFormat(type, format, null) de-registers the format: no handler is
\* found for (type, format) afterwards, and the format check of a schema that uses it
\* warns 'Non standard format'
C8_NullDefinitionDeregisters ==
    \A type \in DefineTypes, format \in DefineFormats :
        Deregistered(type, format) =>
            /\ ~DataType(dataTypes, Str(type), Str(format)).defined
               \/ ~DataType(dataTypes, Str(type), Str(format)).handlers
            /\ /\ pc = "constructed"
               /\ Member(walk.heap, walk.ctx[<<>>].definition, "type") = Str(type)
               /\ Member(walk.heap, walk.ctx[<<>>].definition, "format") = Str(format)
               => \E i \in DOMAIN walk.msgs :
                     /\ walk.msgs[i].chan = "warn"
                     /\ walk.msgs[i].text = "Non standard format"
                     /\ walk.msgs[i].at = <<"format">>

(***************************************************************************)
(* Properties of the injectors of SpecInject.                              *)
(***************************************************************************)
\* the template from index i on, read character by character: a reference whose name data
\* defines stands for its value, which is not read again; anything else stands for itself
RECURSIVE Substituted(_, _, _, _)
Substituted(rx, value, data, i) ==
    IF i > Len(value) THEN <<>>
    ELSE IF MatchEnd(rx, value, i) > 0 /\ Property(rx, value, i) \in DOMAIN data
         THEN data[Property(rx, value, i)] \o Substituted(rx, value, data, MatchEnd(rx, value, i) + 1)
         ELSE IF MatchEnd(rx, value, i) > 0
              THEN SubSeq(value, i, MatchEnd(rx, value, i))
                       \o Substituted(rx, value, data, MatchEnd(rx, value, i) + 1)
              ELSE <<value[i]>> \o Substituted(rx, value, data, i + 1)

\* C11: each injector returns the template with every reference whose name is defined in
\* params replaced by params[name], and every other reference and all other text
\* verbatim, in one scan from left to right: what a substitution has introduced is not
\* scanned for references
C11_InjectorSubstitutesOnce ==
    pc = "injected" =>
        /\ populated = Substituted(populateInjectors[input.replacement], input.value,
                                   input.data, 1)
        /\ (\A i \in 1..Len(input.value) :
                MatchEnd(populateInjectors[input.replacement], input.value, i) > 0
                => Property(populateInjectors[input.replacement], input.value, i)
                       \notin DOMAIN input.data)
           => populated = input.value

\* a template with a reference that is replaced by a value that holds a reference itself,
\* next to a reference that stays
C11_Witness ==
    /\ pc = "injected"
    /\ input.replacement = "colon"
    /\ input.value = <<":", "a", ":", "a", "1">>
    /\ populated = <<"{", "{", "a", "}", "}", ":", "a", ":", "a", "1">>

(***************************************************************************)
(* Properties of the Schema validator in SpecSchema.                       *)
(***************************************************************************)
\* the walk has recorded an error with one of `texts` about `name`
Reported(w, texts, name) ==
    \E i \in DOMAIN w.msgs :
        /\ w.msgs[i].chan = "error"
        /\ w.msgs[i].text \in texts
        /\ w.msgs[i].arg = <<name>>

\* the Schemas of type object of a version 3 document whose discriminator names a property
Discriminating(w) ==
    {p \in Schemas(w) :
        /\ w.major = 3
        /\ Member(w.heap, w.ctx[p].definition, "type") = Str("object")
        /\ Member(w.heap, Member(w.heap, w.ctx[p].definition, "discriminator"),
                  "propertyName").t = "string"}

\* C12: for a v3 Schema of type object with a discriminator, normalization attaches an
\* error whenever discriminator.propertyName is missing from the required list of the
\* schema, and whenever it is missing from its properties; neither when it is in both
C12_DiscriminatorPropertyChecked ==
    pc = "constructed" =>
        \A p \in Discriminating(walk) :
            LET def == walk.ctx[p].definition
                name == Member(walk.heap, Member(walk.heap, def, "discriminator"),
                               "propertyName")
                required == Member(walk.heap, def, "required")
                properties == Member(walk.heap, def, "properties")
                isRequired == IsRawArray(walk.heap, required)
                              /\ RawIncludes(walk.heap, required, name)
                isProperty == RawHas(walk.heap, properties, name.v)
            IN /\ Reported(walk, {"must be required because it is used as the discriminator property",
                                  "must be found in the parent's required properties list"},
                           name.v) <=> ~isRequired
               /\ Reported(walk, {"must be found in the parent's properties definition"},
                           name.v) <=> ~isProperty

\* the Schemas of type object that list required properties
Requiring(w) ==
    {p \in Schemas(w) :
        /\ Member(w.heap, w.ctx[p].definition, "type") = Str("object")
        /\ IsRawArray(w.heap, Member(w.heap, w.ctx[p].definition, "required"))}

\* additionalProperties is omitted (default true), true or a schema
Permitted(w, def) ==
    ~RawHas(w.heap, def, "additionalProperties")
        \/ Truthy(Member(w.heap, def, "additionalProperties"))

\* C13: for a Schema of type object an entry of required produces the 'listed as required
\* but is not defined' error if and only if it is not a key of properties and additional
\* properties are not permitted; a schema that omits additionalProperties produces none
C13_RequiredNeedsPropertyOrAdditional ==
    pc = "constructed" =>
        \A p \in Requiring(walk) :
            LET def == walk.ctx[p].definition
                required == walk.heap[Member(walk.heap, def, "required").v].val
            IN \A k \in 1..Len(required) :
                   (\E i \in DOMAIN walk.msgs :
                        /\ walk.msgs[i].chan = "error"
                        /\ walk.msgs[i].pos = p \o <<"required">>
                        /\ walk.msgs[i].text = "Property is listed as required but is not defined"
                        /\ walk.msgs[i].arg = <<required[k].v>>)
                   <=> (/\ ~RawHas(walk.heap, Member(walk.heap, def, "properties"), required[k].v)
                        /\ ~Permitted(walk, def))

(***************************************************************************)
(* Properties of the steps of normalize, in Spec.                          *)
(***************************************************************************)
\* the plain validator that line 64 generates from the validator `name` given to normalize
Effective(w, name) ==
    IF Descriptor(name).kind # "fn" THEN Descriptor(name)
    ELSE IF name \in w.faulty THEN Descriptor("") ELSE Descriptor(Descriptor(name).target)

\* the types that the plain validator V declares: a literal, or what its callback returns
Declared(w, V, data) ==
    IF V.type.k = "cb" THEN ToArray(Call(V.type.v, w, data).ret) ELSE ToArray(V.type.v)

\* the definition at data has a type that the plain validator V declares not
Mistyped(w, V, data) ==
    /\ V.kind # "undefined" /\ TruthyField(V.type)
    /\ V.type.k = "cb" => V.type.v \notin w.faulty
    /\ data.definition # Undefined
    /\ data.definitionType \notin SetOf(Declared(w, V, data))

\* pos is below the node at top
Below(top, pos) == Len(pos) > Len(top) /\ SubSeq(pos, 1, Len(top)) = top

\* the events logged for the content of the node at pos: its loops and its children
ContentEvents(w, pos) ==
    {i \in DOMAIN w.log :
        \/ w.log[i].pos = pos /\ w.log[i].ev \in {"known", "additional", "array", "turn", "assign"}
        \/ Below(pos, w.log[i].pos)}

\* the calls logged at pos of the callback that the field is, if it is one
CallsOf(w, pos, field) ==
    {i \in DOMAIN w.log :
        w.log[i].ev = "call" /\ w.log[i].pos = pos /\ field.k = "cb" /\ w.log[i].key = field.v}

\* the 'Value must be ...' errors of the type check attached at the node of data
TypeErrors(w, data) ==
    {i \in DOMAIN w.msgs :
        /\ w.msgs[i].chan = "error" /\ w.msgs[i].text = "Value must be"
        /\ w.msgs[i].pos = data.pos /\ w.msgs[i].at = data.exception}

\* C14: when the validator declares type, the definition is defined and its definitionType
\* is not among the declared types, normalize attaches exactly one 'Value must be ...'
\* error at the node, returns undefined and does nothing else for the node: the definition
\* is not recorded in the map, no child is visited, enum and errors are not invoked
C14_TypeMismatchAbortsNode ==
    pc = "done" =>
        \A i \in DOMAIN walk.log :
            LET e == walk.log[i]
                data == walk.ctx[e.pos]
                V == Effective(walk, e.key)
            IN (e.ev = "normalize" /\ Mistyped(walk, V, data)) =>
                   /\ Cardinality(TypeErrors(walk, data)) = 1
                   /\ \E r \in DOMAIN walk.returns :
                          /\ walk.returns[r].pos = e.pos
                          /\ walk.returns[r].line = 67
                          /\ walk.returns[r].val = Undefined
                   /\ IsObjectLike(data.definition) =>
                          Existing(walk.map, data.definition) # data.result
                   /\ ContentEvents(walk, e.pos) = {}
                   /\ CallsOf(walk, e.pos, V.enum) = {}
                   /\ CallsOf(walk, e.pos, V.errors) = {}

\* the later visits: the returns of the calls of normalize for a definition that the map
\* already held when the call was made
LaterVisits(w) == {r \in DOMAIN w.returns : w.returns[r].seen}

\* the messages attached by callbacks or by normalize for the node at pos
MessagesFor(w, pos) == {i \in DOMAIN w.msgs : w.msgs[i].pos = pos}

\* C15: each object or array of the raw definition is materialized at most once per walk:
\* a second or later visit of the same definition object through normalize returns the
\* first-seen result and attaches no further error or warning message, visits none of its
\* children again and does not invoke its errors callback again
C15_LaterVisitReturnsFirstSeenSilently ==
    pc = "done" =>
        \A r \in LaterVisits(walk) :
            LET ret == walk.returns[r]
                V == Effective(walk, walk.log[CHOOSE i \in EventsAt("normalize", ret.pos) : TRUE].key)
            IN /\ ret.val = walk.map[ret.definition.v]
               /\ MessagesFor(walk, ret.pos) = {}
               /\ ContentEvents(walk, ret.pos) = {}
               /\ CallsOf(walk, ret.pos, V.errors) = {}

(***************************************************************************)
(* Properties of the loop over the known properties, in Spec.              *)
(***************************************************************************)
\* the turns of the loops over known properties: the node, its plain validator, a property
KnownTurns(w) ==
    {t \in (DOMAIN w.log) \X (1..10) :
        /\ w.log[t[1]].ev = "known"
        /\ t[2] <= Len(Descriptor(w.log[t[1]].key).properties)
        /\ \E j \in DOMAIN w.log :
              /\ w.log[j].ev = "turn" /\ w.log[j].pos = w.log[t[1]].pos
              /\ w.log[j].key = Descriptor(w.log[t[1]].key).properties[t[2]].key}

PropertyOf(w, t) == Descriptor(w.log[t[1]].key).properties[t[2]]
\* the walk context of the property of the turn, and the raw value of the property
ChildOf(w, t) == w.ctx[Append(w.log[t[1]].pos, PropertyOf(w, t).key)]
RawOf(w, t) == Member(w.heap, w.ctx[w.log[t[1]].pos].definition, PropertyOf(w, t).key)

\* what a field of a descriptor resolves to for data: the literal, or what the callback
\* returns; `absent` when the descriptor has no such field
ResolvedField(w, field, data, absent) ==
    CASE field.k = "cb" -> Call(field.v, w, data).ret
      [] field.k = "lit" -> field.v
      [] OTHER -> absent

\* the field is no callback that throws
Sound(w, field) == field.k = "cb" => field.v \notin w.faulty

\* C16: in structured-object normalization, for every property of validator.properties
\* whose raw value is absent, whose allowed resolves to true and whose descriptor declares a
\* default (the inline config of an EnforcerRef included), the default is used as the
\* definition of the property with definitionType recomputed, and the result of the parent
\* holds the normalized default under that key; when allowed is false no default is
\* synthesized
C16_DefaultSynthesizedWhenAllowed ==
    pc = "done" =>
        \A t \in KnownTurns(walk) :
            LET keyValidator == KeyValidator(PropertyOf(walk, t).validator)
                child == ChildOf(walk, t)
                parent == walk.ctx[walk.log[t[1]].pos]
                allowed == Truthy(ResolvedField(walk, keyValidator.allowed, child, Bool(TRUE)))
                default == ResolvedField(walk, keyValidator.default, child, Undefined)
            IN (/\ RawOf(walk, t) = Undefined
                /\ keyValidator.default.k # "none"
                /\ Sound(walk, keyValidator.allowed) /\ Sound(walk, keyValidator.default))
               => IF allowed
                  THEN /\ child.definition = default
                       /\ child.definitionType = getDefinitionType(walk.heap, default)
                       /\ ResultMember(walk, parent.result, PropertyOf(walk, t).key) = default
                  ELSE /\ child.definition = Undefined
                       /\ ~ResultHas(walk, parent.result, PropertyOf(walk, t).key)

\* what a field of a descriptor resolves to in the walk: undefined when its callback throws
Resolves(w, field, data, absent) ==
    IF Sound(w, field) THEN ResolvedField(w, field, data, absent) ELSE Undefined

\* the structured objects that normalize has walked to their end: the "known" events of
\* the nodes that have returned at line 218
Structured(w) ==
    {i \in DOMAIN w.log :
        /\ w.log[i].ev = "known"
        /\ \E r \in DOMAIN w.returns :
               w.returns[r].pos = w.log[i].pos /\ w.returns[r].line = 218}

\* the keys that the messages `text` of the node at pos name
Named(w, pos, text) ==
    UNION {SetOf(w.msgs[i].arg) :
              i \in {j \in DOMAIN w.msgs : /\ w.msgs[j].pos = pos /\ w.msgs[j].text = text
                                           /\ w.msgs[j].at = w.ctx[pos].exception
                                           /\ w.msgs[j].chan = "error"}}

\* the keys of validator.properties
KnownKeys(V) == {V.properties[i].key : i \in 1..Len(V.properties)}
ValidatorOf(V, key) == (CHOOSE i \in 1..Len(V.properties) : V.properties[i].key = key)

\* the known properties of the node at pos that are present (defined once the default is
\* injected) and those among them whose allowed resolves to true
Present(w, pos, V) == {k \in KnownKeys(V) : w.ctx[Append(pos, k)].definition # Undefined}
Allowed(w, pos, V) ==
    {k \in KnownKeys(V) :
        Truthy(Resolves(w, KeyValidator(V.properties[ValidatorOf(V, k)].validator).allowed,
                        w.ctx[Append(pos, k)], Bool(TRUE)))}
Ignored(w, pos, V) ==
    {k \in KnownKeys(V) :
        Truthy(Resolves(w, KeyValidator(V.properties[ValidatorOf(V, k)].validator).ignored,
                        w.ctx[Append(pos, k)], Bool(FALSE)))}

\* the keys of the definition of the node at pos that match ^x-.+
Extensions(w, pos) == {k \in SetOf(ObjectKeys(w.heap, w.ctx[pos].definition)) : rxExtension(k)}

\* the keys assigned into the result of the node at pos
Assigned(w, pos) == {w.log[i].key : i \in {j \in DOMAIN w.log : w.log[j].ev = "assign" /\ w.log[j].pos = pos}}

\* C17: in structured-object normalization the keys named in the 'not allowed' message are
\* exactly the known properties that are present with allowed resolving to false plus every
\* key of the definition that neither matches ^x-.+ nor is listed in validator.properties;
\* none of those keys is ever assigned into the result, a present allowed property whose
\* ignored resolves to true is neither reported nor assigned, and extension keys are copied
\* verbatim into the result and never reported
C17_NotAllowedKeysExact ==
    pc = "done" =>
        \A i \in Structured(walk) :
            LET pos == walk.log[i].pos
                V == Descriptor(walk.log[i].key)
                data == walk.ctx[pos]
                named == Named(walk, pos, "Property not allowed")
                unknown == (SetOf(ObjectKeys(walk.heap, data.definition)) \ Extensions(walk, pos))
                               \ KnownKeys(V)
                refused == Present(walk, pos, V) \ Allowed(walk, pos, V)
                skipped == (Present(walk, pos, V) \cap Allowed(walk, pos, V)) \cap Ignored(walk, pos, V)
            IN /\ named = refused \cup unknown
               /\ \A k \in named \cup skipped :
                      ~ResultHas(walk, data.result, k) /\ k \notin Assigned(walk, pos)
               /\ skipped \cap named = {}
               /\ \A k \in Extensions(walk, pos) :
                      /\ ResultMember(walk, data.result, k) = Member(walk.heap, data.definition, k)
                      /\ k \notin named

\* a node with a known property that is not allowed and an unknown key, under a root
\* with an extension key
C17_Witness ==
    /\ pc = "done"
    /\ \E i \in Structured(walk) :
          LET pos == walk.log[i].pos
              V == Descriptor(walk.log[i].key)
          IN /\ Present(walk, pos, V) \ Allowed(walk, pos, V) # {}
             /\ "zz" \in Named(walk, pos, "Property not allowed")
    /\ Extensions(walk, <<>>) # {}

\* the known properties of the node at pos whose required resolves to a truthy value
Required(w, pos, V) ==
    {k \in KnownKeys(V) :
        Truthy(Resolves(w, KeyValidator(V.properties[ValidatorOf(V, k)].validator).required,
                        w.ctx[Append(pos, k)], Bool(FALSE)))}

\* C18: in structured-object normalization a property is named in the 'Missing required'
\* message if and only if its value is still absent after default injection, its allowed
\* resolves to true and its required (literal or callback) resolves to a truthy value; a
\* property that is absent but not allowed is never reported missing
C18_MissingRequiredExact ==
    pc = "done" =>
        \A i \in Structured(walk) :
            LET pos == walk.log[i].pos
                V == Descriptor(walk.log[i].key)
                absent == KnownKeys(V) \ Present(walk, pos, V)
            IN Named(walk, pos, "Missing required property")
                   = (absent \cap Allowed(walk, pos, V)) \cap Required(walk, pos, V)

\* a node misses a required property that is allowed, and a node lacks a required property
\* that is not allowed and is not reported
C18_Witness ==
    /\ pc = "done"
    /\ \E i \in Structured(walk) :
          Named(walk, walk.log[i].pos, "Missing required property") # {}
    /\ \E i \in Structured(walk) :
          LET pos == walk.log[i].pos
              V == Descriptor(walk.log[i].key)
          IN ((KnownKeys(V) \ Present(walk, pos, V)) \cap Required(walk, pos, V))
                 \ Allowed(walk, pos, V) # {}

\* the children that runChildValidator has met with a validator that resolves to a falsy
\* value: the "child" events of the validators false and undefined
Unvalidated(w) ==
    {i \in DOMAIN w.log : w.log[i].ev = "child" /\ ~TruthyValidator(w.log[i].key)}

\* the value that the node at pos has in the result of its parent
ValueIn(w, pos) ==
    LET result == w.ctx[Parent(pos)].result
        key == pos[Len(pos)]
    IN IF result.t = "res" /\ w.res[result.v].t = "array"
       THEN w.res[result.v].val[IdxOf(key) + 1]
       ELSE ResultMember(w, result, key)

\* C19: when the resolved validator of a child is falsy, runChildValidator returns the raw
\* definition of the child unchanged, for every definitionType: a scalar child yields the
\* scalar, and an object or array child yields the raw object or array with its content
C19_FalsyValidatorReturnsRawDefinition ==
    pc = "done" =>
        \A i \in Unvalidated(walk) :
            ValueIn(walk, walk.log[i].pos) = walk.ctx[walk.log[i].pos].definition

\* the errors of the enum check attached at the node at pos
EnumErrors(w, pos) ==
    {i \in DOMAIN w.msgs :
        /\ w.msgs[i].chan = "error" /\ w.msgs[i].text = "Value must be one of"
        /\ w.msgs[i].pos = pos /\ w.msgs[i].at = w.ctx[pos].exception}

\* the values that the enum of the plain validator V allows, when it provides one
AllowedValues(w, V, data) == ResolvedField(w, V.enum, data, List(<<>>)).v

\* C20: when the validator provides enum (literal or callback) and the definition is not
\* equal to any of the allowed values, normalize attaches a 'Value must be ...' error at
\* the node and exits the node: it does not dispatch on definitionType and does not run
\* the errors callback; when the definition equals one of the allowed values no enum error
\* is attached
C20_EnumMismatchExitsNode ==
    pc = "done" =>
        \A i \in DOMAIN walk.log :
            LET e == walk.log[i]
                data == walk.ctx[e.pos]
                V == Effective(walk, e.key)
            IN (/\ e.ev = "normalize"
                /\ V.kind # "undefined" /\ TruthyField(V.enum) /\ Sound(walk, V.enum)
                /\ \E c \in CallsOf(walk, e.pos, V.enum) : TRUE)
               => IF \E k \in 1..Len(AllowedValues(walk, V, data)) :
                         AllowedValues(walk, V, data)[k] = data.definition
                  THEN EnumErrors(walk, e.pos) = {}
                  ELSE /\ Cardinality(EnumErrors(walk, e.pos)) = 1
                       /\ ContentEvents(walk, e.pos) = {}
                       /\ \A r \in DOMAIN walk.returns :
                              walk.returns[r].pos = e.pos => walk.returns[r].line # 218
                       /\ CallsOf(walk, e.pos, V.errors) = {}

\* the nodes that have reached the branch on definitionType with a definition that is
\* null or undefined: their calls of normalize have returned neither at the type check
\* nor at the lookup of the map
Untyped(w) ==
    {r \in DOMAIN w.returns :
        /\ w.ctx[w.returns[r].pos].definitionType \in {"null", "undefined"}
        /\ w.returns[r].line = 218
        /\ Effective(w, w.log[CHOOSE i \in EventsAt("normalize", w.returns[r].pos) : TRUE].key).kind
               # "undefined"}

\* the errors `text` attached at the path of the node at pos
ErrorsAt(w, pos, text) ==
    {i \in DOMAIN w.msgs :
        /\ w.msgs[i].chan = "error" /\ w.msgs[i].text = text
        /\ w.msgs[i].pos = pos /\ w.msgs[i].at = w.ctx[pos].exception}

\* C21: when normalize reaches the dispatch step with a definitionType that is none of
\* array, object, boolean, number or string (null or undefined), it attaches an 'Unknown
\* data type' error message at the path of the node and returns without having thrown
\* internally
C21_UnknownDataTypeReported ==
    pc = "done" =>
        \A r \in Untyped(walk) :
            /\ ErrorsAt(walk, walk.returns[r].pos, "Unknown data type provided") # {}
            /\ ErrorsAt(walk, walk.returns[r].pos, "Unexpected error encountered") = {}

\* the first visits that have passed the type check with a validator that provides errors:
\* the "normalize" events of the nodes that have returned at line 218
Checked(w) ==
    {i \in DOMAIN w.log :
        /\ w.log[i].ev = "normalize"
        /\ Effective(w, w.log[i].key).kind # "undefined"
        /\ Effective(w, w.log[i].key).errors.k = "cb"
        /\ \E r \in DOMAIN w.returns :
               /\ w.returns[r].pos = w.log[i].pos /\ w.returns[r].line = 218
               /\ ~w.returns[r].seen
        /\ ErrorsAt(w, w.log[i].pos, "Unexpected error encountered") = {}}

\* C22: for every node that passes its type check on its first visit and whose validator
\* provides errors, the errors callback is invoked exactly once for that node, after all
\* of the children of the node have been processed; this holds in every object mode,
\* including children reached through the additionalProperties of a validator
C22_ErrorsInvokedOnceAfterChildren ==
    pc = "done" =>
        \A i \in Checked(walk) :
            LET pos == walk.log[i].pos
                invoked == CallsOf(walk, pos, Effective(walk, walk.log[i].key).errors)
            IN /\ Cardinality(invoked) = 1
               /\ \A c \in invoked, e \in ContentEvents(walk, pos) : e < c

(***************************************************************************)
(* Properties of the frame of defineDataTypeFormat, in SpecRegistry.       *)
(***************************************************************************)
\* a call of defineDataTypeFormat that throws
DefineThrows == calls' = calls + 1 /\ thrown' # ""

\* C23: every call of defineDataTypeFormat that throws (unknown type, empty format, a
\* definition lacking a handler, or an entry of constructors that is not a function) leaves
\* both the data type registry and the process-wide set of constructors exactly as they
\* were before the call
C23_ThrowingDefineChangesNothing ==
    [][DefineThrows => (dataTypes' = dataTypes /\ constructors' = constructors)]_vars

====
